---- MODULE Spec2Model ----
(***************************************************************************)
(* Tien Len rules engine (src/src/game/tienlen.ts): card model, combo      *)
(* detection and comparison, the table state machine (isLegalMove,         *)
(* applyMove, applyPass), the move heuristic (aiChooseMove) and            *)
(* initSinglePlayer.                                                       *)
(*                                                                         *)
(* Conventions.  A Card is a record [rank, suit]; ranks are the strings of *)
(* RANKS, suits are written "S" (spades), "H" (hearts), "D" (diamonds) and *)
(* "C" (clubs) for the glyphs of the source.  JavaScript arrays are        *)
(* sequences; an index computed by the source (indexOf, findIndex,         *)
(* rankIndex) keeps its 0-based value, -1 included.  null is the record    *)
(* `null`.  hands is a function from the seats 0..players-1.               *)
(***************************************************************************)
EXTENDS Integers, Sequences, FiniteSets, TLC

\* ------------------------------------------------------------------------
\* Bounds of the model
\* ------------------------------------------------------------------------

\* Number of cards of the deck that is dealt (the source deals all 52).
DeckSize == 10

\* Number of seeds of the random source the games are started from.
NumSeeds == 2

\* Number of seeds initSinglePlayer is called with on the full deck, and
\* the page is mounted with.
NumInitSeeds == 60

\* The random values tried exhaustively are the fractions k/RngDen.
RngDen == 2

\* Largest hand of the seat a call of isLegalMove or aiChooseMove is about.
MaxHand == 4

\* Longest card list detectCombo is called with.
MaxDetect == 5

\* ------------------------------------------------------------------------
\* Cards
\* ------------------------------------------------------------------------

null == [type |-> "null"]

RANKS == <<"3", "4", "5", "6", "7", "8", "9", "10", "J", "Q", "K", "A", "2">>

SUITS == <<"S", "H", "D", "C">>

SUIT_ORDER == <<"C", "D", "H", "S">>

\* Array.prototype.indexOf on a sequence: 0-based, -1 when absent.
indexOf(seq, x) ==
  IF \E i \in 1..Len(seq) : seq[i] = x
  THEN (CHOOSE i \in 1..Len(seq) : seq[i] = x /\ \A k \in 1..(i-1) : seq[k] # x) - 1
  ELSE -1

\* RANKS.indexOf and SUIT_ORDER.indexOf, tabulated once.
rankIndexTable == [r \in {RANKS[i] : i \in 1..Len(RANKS)} |-> indexOf(RANKS, r)]

suitIndexTable == [s \in {SUIT_ORDER[i] : i \in 1..Len(SUIT_ORDER)} |-> indexOf(SUIT_ORDER, s)]

rankIndex(r) == IF r \in DOMAIN rankIndexTable THEN rankIndexTable[r] ELSE -1

suitIndex(s) == IF s \in DOMAIN suitIndexTable THEN suitIndexTable[s] ELSE -1

sign(n) == IF n > 0 THEN 1 ELSE IF n < 0 THEN -1 ELSE 0

Min(a, b) == IF a <= b THEN a ELSE b

\* The comparator of sortCardsByRankSuit: negative when a sorts before b.
cardCmp(a, b) ==
  LET ra == rankIndex(a.rank)
      rb == rankIndex(b.rank)
  IN IF ra # rb THEN ra - rb ELSE suitIndex(a.suit) - suitIndex(b.suit)

\* Stable insertion of c into a sequence sorted by cardCmp.
RECURSIVE insertCard(_, _)
insertCard(sorted, c) ==
  IF sorted = <<>> THEN <<c>>
  ELSE IF cardCmp(c, sorted[Len(sorted)]) >= 0 THEN Append(sorted, c)
  ELSE Append(insertCard(SubSeq(sorted, 1, Len(sorted) - 1), c), sorted[Len(sorted)])

RECURSIVE sortCardsByRankSuit(_)
sortCardsByRankSuit(cards) ==
  IF cards = <<>> THEN <<>>
  ELSE insertCard(sortCardsByRankSuit(SubSeq(cards, 1, Len(cards) - 1)), cards[Len(cards)])

\* ------------------------------------------------------------------------
\* Combination detector
\* ------------------------------------------------------------------------

\* isStraight without the test for a 2.
isStraightWithTwo(cards) ==
  IF Len(cards) < 3 THEN FALSE
  ELSE IF Cardinality({cards[i].rank : i \in 1..Len(cards)}) # Len(cards) THEN FALSE
  ELSE \A i \in 2..Len(cards) : rankIndex(cards[i].rank) = rankIndex(cards[i-1].rank) + 1

isStraight(cards) ==
  IF Len(cards) < 3 THEN FALSE
  ELSE IF \E i \in 1..Len(cards) : cards[i].rank = "2" THEN FALSE
  ELSE IF Cardinality({cards[i].rank : i \in 1..Len(cards)}) # Len(cards) THEN FALSE
  ELSE \A i \in 2..Len(cards) : rankIndex(cards[i].rank) = rankIndex(cards[i-1].rank) + 1

\* highestRank taking the first card of the list.
highestRankFirst(cards) == cards[1].rank

highestRank(cards) == sortCardsByRankSuit(cards)[Len(cards)].rank

sameRank(cards) == \A i \in 1..Len(cards) : cards[i].rank = cards[1].rank

\* The body of detectCombo after its first line; cards is the sorted copy.
detectSorted(cards) ==
  IF Len(cards) = 0 THEN null
  ELSE IF Len(cards) = 1
    THEN [type |-> "single", cards |-> cards, primaryRank |-> cards[1].rank]
  ELSE IF Len(cards) = 2
    THEN IF cards[1].rank = cards[2].rank
         THEN [type |-> "pair", cards |-> cards, primaryRank |-> cards[1].rank]
         ELSE null
  ELSE IF Len(cards) = 3
    THEN IF sameRank(cards)
         THEN [type |-> "triple", cards |-> cards, primaryRank |-> cards[1].rank]
         ELSE IF isStraight(cards)
         THEN [type |-> "straight", cards |-> cards, primaryRank |-> highestRank(cards)]
         ELSE null
  ELSE IF Len(cards) = 4 /\ sameRank(cards)
    THEN [type |-> "bomb4", cards |-> cards, primaryRank |-> cards[1].rank]
  ELSE IF isStraight(cards)
    THEN [type |-> "straight", cards |-> cards, primaryRank |-> highestRank(cards)]
  ELSE null

detectCombo(raw) == detectSorted(sortCardsByRankSuit(raw))

\* ------------------------------------------------------------------------
\* Combination comparator
\* ------------------------------------------------------------------------

\* compareCombos without the two bomb branches.
compareCombosNoBombRule(prev, next) ==
  IF prev.type # next.type THEN -1
  ELSE IF Len(prev.cards) # Len(next.cards) THEN -1
  ELSE LET cmp == sign(rankIndex(next.primaryRank) - rankIndex(prev.primaryRank))
       IN IF cmp # 0 THEN cmp
          ELSE sign(suitIndex(sortCardsByRankSuit(next.cards)[Len(next.cards)].suit)
                    - suitIndex(sortCardsByRankSuit(prev.cards)[Len(prev.cards)].suit))

\* compareCombos testing next for a bomb before prev.
compareCombosBombFirst(prev, next) ==
  IF next.type = "bomb4" THEN 1
  ELSE IF prev.type = "bomb4" THEN -1
  ELSE compareCombosNoBombRule(prev, next)

\* compareCombos without the test of the sizes.
compareCombosAnySize(prev, next) ==
  IF prev.type = "bomb4"
  THEN IF next.type = "bomb4"
       THEN sign(rankIndex(next.primaryRank) - rankIndex(prev.primaryRank))
       ELSE -1
  ELSE IF next.type = "bomb4" THEN 1
  ELSE IF prev.type # next.type THEN -1
  ELSE LET cmp == sign(rankIndex(next.primaryRank) - rankIndex(prev.primaryRank))
       IN IF cmp # 0 THEN cmp
          ELSE sign(suitIndex(sortCardsByRankSuit(next.cards)[Len(next.cards)].suit)
                    - suitIndex(sortCardsByRankSuit(prev.cards)[Len(prev.cards)].suit))

\* compareCombos without the tie-break by suit.
compareCombosNoSuit(prev, next) ==
  IF prev.type = "bomb4"
  THEN IF next.type = "bomb4"
       THEN sign(rankIndex(next.primaryRank) - rankIndex(prev.primaryRank))
       ELSE -1
  ELSE IF next.type = "bomb4" THEN 1
  ELSE IF prev.type # next.type THEN -1
  ELSE IF Len(prev.cards) # Len(next.cards) THEN -1
  ELSE sign(rankIndex(next.primaryRank) - rankIndex(prev.primaryRank))

compareCombos(prev, next) ==
  IF prev.type = "bomb4"
  THEN IF next.type = "bomb4"
       THEN sign(rankIndex(next.primaryRank) - rankIndex(prev.primaryRank))
       ELSE -1
  ELSE IF next.type = "bomb4" THEN 1
  ELSE IF prev.type # next.type THEN -1
  ELSE IF Len(prev.cards) # Len(next.cards) THEN -1
  ELSE LET cmp == sign(rankIndex(next.primaryRank) - rankIndex(prev.primaryRank))
       IN IF cmp # 0 THEN cmp
          ELSE LET prevMax == sortCardsByRankSuit(prev.cards)[Len(prev.cards)]
                   nextMax == sortCardsByRankSuit(next.cards)[Len(next.cards)]
               IN sign(suitIndex(nextMax.suit) - suitIndex(prevMax.suit))

\* ------------------------------------------------------------------------
\* Deck, random source, shuffle, deal
\* ------------------------------------------------------------------------

\* The loop of buildDeck over the given suits and ranks: suit-major.
deckOf(suits, ranks) ==
  [i \in 1..(Len(suits) * Len(ranks)) |->
     [rank |-> ranks[((i - 1) % Len(ranks)) + 1],
      suit |-> suits[((i - 1) \div Len(ranks)) + 1]]]

buildDeck == deckOf(SUITS, RANKS)

\* The deck the model deals: the last DeckSize cards of buildDeck's loop
\* over the ranks DeckRanks (the three lowest ranks and the top rank), so
\* that it holds the opening card, 3 of clubs.
DeckRanks == <<"3", "4", "5", "2">>

tableDeck ==
  LET deck == deckOf(SUITS, DeckRanks)
  IN SubSeq(deck, Len(deck) - Min(DeckSize, Len(deck)) + 1, Len(deck))

\* A value of the random source is a fraction n/d in [0,1), kept exact as
\* the record [n, d].  floorMul(u, m) is Math.floor(u * m): the largest j
\* with j * d <= n * m, the comparison done after dividing by m (d split as
\* m * (d \div m) + d % m) so that no product leaves 32 bits.
floorMul(u, m) ==
  LET ceilDiv(x, y) == (x + y - 1) \div y
      atLeast(j) == u.n >= j * (u.d \div m) + ceilDiv(j * (u.d % m), m)
  IN CHOOSE j \in 0..(m - 1) : atLeast(j) /\ (j + 1 <= m - 1 => ~atLeast(j + 1))

\* shuffleLoop that writes a[j] to a[i] and leaves a[j] as it was.
RECURSIVE shuffleLoopOneWay(_, _, _, _)
shuffleLoopOneWay(a, i, rng, t) ==
  IF i <= 0 THEN a
  ELSE LET j == floorMul(rng[t], i + 1)
           copied == [a EXCEPT ![i + 1] = a[j + 1]]
       IN shuffleLoopOneWay(copied, i - 1, rng, t + 1)

\* shuffle: rng is the sequence of values the random source yields, in
\* order; the loop runs i from arr.length-1 down to 1 and draws once per
\* step.  The swap of a step is done, and leaves the length as it was, before
\* the next step begins.
RECURSIVE shuffleLoop(_, _, _, _)
shuffleLoop(a, i, rng, t) ==
  IF i <= 0 THEN a
  ELSE LET j == floorMul(rng[t], i + 1)
           swapped == [a EXCEPT ![i + 1] = a[j + 1], ![j + 1] = a[i + 1]]
       IN CASE Len(swapped) = Len(a) -> shuffleLoop(swapped, i - 1, rng, t + 1)

shuffle(arr, rng) == shuffleLoop(arr, Len(arr) - 1, rng, 1)

\* The caller's array after shuffle(arr, rng): the loop works on
\* arr.slice(), so arr keeps its elements.
shuffleArg(arr, rng) == arr

\* dealPlayers that returns the hands in the order dealt.
dealPlayersUnsorted(deck, players) ==
  [s \in 0..(players - 1) |->
     SelectSeq(
       [k \in 1..Len(deck) |-> IF (k - 1) % players = s THEN deck[k] ELSE null],
       LAMBDA c : c # null)]

\* dealPlayers: card i (0-based) goes to seat i % players, then each hand
\* is sorted.
dealPlayers(deck, players) ==
  [s \in 0..(players - 1) |->
     sortCardsByRankSuit(SelectSeq(
       [k \in 1..Len(deck) |-> IF (k - 1) % players = s THEN deck[k] ELSE null],
       LAMBDA c : c # null))]

\* Array.from({ length: players }, ...): a length below 0 counts as 0.
arrayLength(players) == IF players > 0 THEN players ELSE 0

\* The index i % players of the loop, for i >= 0: the remainder takes the
\* sign of i, and i % 0 is NaN, which indexes no element (-1 here).
handIndex(i, players) ==
  IF players = 0 THEN -1
  ELSE i % (IF players < 0 THEN -players ELSE players)

\* hands[i % players].push(...) on an index that holds no array raises a
\* TypeError.
dealThrows(deck, players) ==
  \E i \in 0..(Len(deck) - 1) :
    handIndex(i, players) \notin 0..(arrayLength(players) - 1)

\* The outcome of the call dealPlayers(deck, players) for any integer.
dealPlayersCall(deck, players) ==
  IF dealThrows(deck, players)
  THEN [type |-> "thrown", error |-> "TypeError"]
  ELSE [type |-> "returned", hands |-> dealPlayers(deck, arrayLength(players))]

\* The generator of the page (useMemo rng): s = (s * 16807) % 2147483647,
\* value s / 2147483647.  The product is taken by Schrage's split
\* 2147483647 = 16807 * 127773 + 2836, which gives the same residue.
LehmerM == 2147483647

LehmerA == 16807

lehmerNext(s) ==
  LET t == LehmerA * (s % 127773) - 2836 * (s \div 127773)
  IN IF t < 0 THEN t + LehmerM ELSE t

lehmerSeed(seed) ==
  LET s == seed % LehmerM
  IN IF s <= 0 THEN s + 2147483646 ELSE s

RECURSIVE lehmerStream(_, _)
lehmerStream(s, len) ==
  IF len = 0 THEN <<>>
  ELSE LET n == lehmerNext(s)
       IN <<[n |-> n, d |-> LehmerM]>> \o lehmerStream(n, len - 1)

\* ------------------------------------------------------------------------
\* Table state machine
\* ------------------------------------------------------------------------

\* findStarter looking for the 3 of spades.
findStarterSpades(hands, players) ==
  LET has(s) == \E i \in 1..Len(hands[s]) : hands[s][i].rank = "3" /\ hands[s][i].suit = "S"
  IN IF \E s \in 0..(players - 1) : has(s)
     THEN CHOOSE s \in 0..(players - 1) : has(s) /\ \A k \in 0..(s - 1) : ~has(k)
     ELSE -1

\* Array.prototype.findIndex over the hands: first seat holding 3 of clubs.
findStarter(hands, players) ==
  LET has(s) == \E i \in 1..Len(hands[s]) : hands[s][i].rank = "3" /\ hands[s][i].suit = "C"
  IN IF \E s \in 0..(players - 1) : has(s)
     THEN CHOOSE s \in 0..(players - 1) : has(s) /\ \A k \in 0..(s - 1) : ~has(k)
     ELSE -1

\* The object initSinglePlayer returns, given its hands and starter.
initialState(hands, starter) ==
  [players |-> 4,
   hands |-> hands,
   currentPlayer |-> IF starter >= 0 THEN starter ELSE 0,
   lastCombo |-> null,
   passesInRow |-> 0,
   started |-> TRUE,
   finished |-> FALSE]

initFromHands(hands) == initialState(hands, findStarter(hands, 4))

\* initSinglePlayer with the deck that buildDeck() yields passed in.
initFromDeck(deck0, rng) == initFromHands(dealPlayers(shuffle(deck0, rng), 4))

initSinglePlayer(rng) == initFromDeck(buildDeck, rng)

\* The first position (1-based) of card c in hand, 0 when absent.
findCard(hand, c) ==
  IF \E i \in 1..Len(hand) : hand[i] = c
  THEN CHOOSE i \in 1..Len(hand) : hand[i] = c /\ \A k \in 1..(i - 1) : hand[k] # c
  ELSE 0

\* hand.splice(idx, 2)
splice2(hand, idx) == SubSeq(hand, 1, idx - 1) \o SubSeq(hand, idx + 2, Len(hand))

\* hand.splice(idx, 1)
splice1(hand, idx) == SubSeq(hand, 1, idx - 1) \o SubSeq(hand, idx + 1, Len(hand))

\* allInHand that looks every card up in the whole hand.
allInHandNoSplice(hand, cards) ==
  \A i \in 1..Len(cards) : findCard(hand, cards[i]) # 0

\* The loop of isLegalMove over the proposed cards: TRUE when every card is
\* found in what is left of the copy of the hand.
RECURSIVE allInHand(_, _)
allInHand(hand, cards) ==
  IF cards = <<>> THEN TRUE
  ELSE LET idx == findCard(hand, Head(cards))
       IN IF idx = 0 THEN FALSE ELSE allInHand(splice1(hand, idx), Tail(cards))

reject(reason) == [ok |-> FALSE, reason |-> reason, combo |-> null]

\* legalCombo with the arguments of compareCombos exchanged.
legalComboReversed(state, combo) ==
  IF combo = null THEN reject("invalid combo")
  ELSE IF state.lastCombo = null
    THEN [ok |-> TRUE, reason |-> "", combo |-> combo]
  ELSE IF compareCombos(combo, state.lastCombo) > 0
    THEN [ok |-> TRUE, reason |-> "", combo |-> combo]
  ELSE [ok |-> FALSE, reason |-> "does not beat last combo", combo |-> combo]

\* The end of isLegalMove (lines 230-241), given the detected combo.
legalCombo(state, combo) ==
  IF combo = null THEN reject("invalid combo")
  ELSE IF state.lastCombo = null
    THEN [ok |-> TRUE, reason |-> "", combo |-> combo]
  ELSE IF compareCombos(state.lastCombo, combo) > 0
    THEN [ok |-> TRUE, reason |-> "", combo |-> combo]
  ELSE [ok |-> FALSE, reason |-> "does not beat last combo", combo |-> combo]

\* isLegalMove checking the cards before the turn.
isLegalMoveCardsFirst(state, player, cards) ==
  IF state.finished THEN reject("game finished")
  ELSE IF ~state.started THEN reject("game not started")
  ELSE IF ~allInHand(state.hands[player], cards) THEN reject("card not in hand")
  ELSE IF player # state.currentPlayer THEN reject("not your turn")
  ELSE legalCombo(state, detectCombo(cards))

\* isLegalMove that refuses to follow a combination once two passes in a
\* row were made on it.
isLegalMoveAfterPass(state, player, cards) ==
  IF state.finished THEN reject("game finished")
  ELSE IF ~state.started THEN reject("game not started")
  ELSE IF player # state.currentPlayer THEN reject("not your turn")
  ELSE IF state.lastCombo # null /\ state.passesInRow >= 2 THEN reject("passed")
  ELSE IF ~allInHand(state.hands[player], cards) THEN reject("card not in hand")
  ELSE legalCombo(state, detectCombo(cards))

\* isLegalMove without its first check.
isLegalMoveNoFinished(state, player, cards) ==
  IF ~state.started THEN reject("game not started")
  ELSE IF player # state.currentPlayer THEN reject("not your turn")
  ELSE IF ~allInHand(state.hands[player], cards) THEN reject("card not in hand")
  ELSE legalCombo(state, detectCombo(cards))

\* The result is the record [ok, reason, combo]; an absent reason is ""
\* and an absent combo is null.
isLegalMove(state, player, cards) ==
  IF state.finished THEN reject("game finished")
  ELSE IF ~state.started THEN reject("game not started")
  ELSE IF player # state.currentPlayer THEN reject("not your turn")
  ELSE IF ~allInHand(state.hands[player], cards) THEN reject("card not in hand")
  ELSE legalCombo(state, detectCombo(cards))

\* The loop of isLegalMove run on the hand itself: what is left of it.
RECURSIVE spliceFound(_, _)
spliceFound(hand, cards) ==
  IF cards = <<>> THEN hand
  ELSE LET idx == findCard(hand, Head(cards))
       IN IF idx = 0 THEN hand ELSE spliceFound(splice1(hand, idx), Tail(cards))

\* isLegalMove splicing the seat's hand instead of a copy of it.
isLegalMoveNoSlice(state, player, cards) ==
  IF state.finished \/ ~state.started \/ player # state.currentPlayer THEN state
  ELSE [state EXCEPT !.hands[player] = spliceFound(@, cards)]

\* The state argument after isLegalMove has returned: the loop splices
\* `state.hands[player].slice()`, a copy, and nothing else is written.
isLegalMoveEffect(state, player, cards) == state

\* removeCards with the loop stopping one card early.
RECURSIVE removeCardsButLast(_, _)
removeCardsButLast(hand, cards) ==
  IF Len(cards) <= 1 THEN hand
  ELSE LET idx == findCard(hand, Head(cards))
       IN removeCardsButLast(IF idx > 0 THEN splice1(hand, idx) ELSE hand, Tail(cards))

\* The loop of applyMove: each card of the combo is spliced out of the hand
\* when it is found.
RECURSIVE removeCards(_, _)
removeCards(hand, cards) ==
  IF cards = <<>> THEN hand
  ELSE LET idx == findCard(hand, Head(cards))
       IN removeCards(IF idx > 0 THEN splice1(hand, idx) ELSE hand, Tail(cards))

\* moveResult that leaves passesInRow as it was.
moveResultKeepPasses(state, player, combo, hand) ==
  [state EXCEPT !.hands = [state.hands EXCEPT ![player] = hand],
                !.lastCombo = combo,
                !.finished = IF Len(hand) = 0 THEN TRUE ELSE state.finished,
                !.currentPlayer = (player + 1) % state.players]

\* moveResult that never sets finished.
moveResultNoFinish(state, player, combo, hand) ==
  [state EXCEPT !.hands = [state.hands EXCEPT ![player] = hand],
                !.lastCombo = combo,
                !.passesInRow = 0,
                !.currentPlayer = (player + 1) % state.players]

\* applyMove after its loop; hand is the seat's hand without the combo.
moveResult(state, player, combo, hand) ==
  [state EXCEPT !.hands = [state.hands EXCEPT ![player] = hand],
                !.lastCombo = combo,
                !.passesInRow = 0,
                !.finished = IF Len(hand) = 0 THEN TRUE ELSE state.finished,
                !.currentPlayer = (player + 1) % state.players]

\* applyMove that advances the seat without the modulo.
applyMoveNoWrap(state, player, combo) ==
  [moveResult(state, player, combo, removeCards(state.hands[player], combo.cards))
     EXCEPT !.currentPlayer = player + 1]

\* applyMove that leaves the turn with the seat that played.
applyMoveNoAdvance(state, player, combo) ==
  [moveResult(state, player, combo, removeCards(state.hands[player], combo.cards))
     EXCEPT !.currentPlayer = player]

applyMove(state, player, combo) ==
  moveResult(state, player, combo, removeCards(state.hands[player], combo.cards))

\* applyPass that refuses the pass of the seat that opens a trick.
applyPassMustOpen(state, player) ==
  IF state.finished \/ state.lastCombo = null THEN state
  ELSE IF state.passesInRow + 1 >= state.players - 1
    THEN [state EXCEPT !.lastCombo = null,
                       !.passesInRow = 0,
                       !.currentPlayer = (player + 1) % state.players]
  ELSE [state EXCEPT !.passesInRow = state.passesInRow + 1,
                     !.currentPlayer = (player + 1) % state.players]

\* applyPass that returns the state as it is to a seat out of turn.
applyPassInTurn(state, player) ==
  IF state.finished \/ player # state.currentPlayer THEN state
  ELSE IF state.passesInRow + 1 >= state.players - 1
    THEN [state EXCEPT !.lastCombo = null,
                       !.passesInRow = 0,
                       !.currentPlayer = (player + 1) % state.players]
  ELSE [state EXCEPT !.passesInRow = state.passesInRow + 1,
                     !.currentPlayer = (player + 1) % state.players]

\* applyPass that clears the table and keeps the count of passes.
applyPassNoReset(state, player) ==
  IF state.finished THEN state
  ELSE IF state.passesInRow + 1 >= state.players - 1
    THEN [state EXCEPT !.lastCombo = null,
                       !.passesInRow = state.passesInRow + 1,
                       !.currentPlayer = (player + 1) % state.players]
  ELSE [state EXCEPT !.passesInRow = state.passesInRow + 1,
                     !.currentPlayer = (player + 1) % state.players]

\* applyPass that clears the table one pass late (> instead of >=).
applyPassLate(state, player) ==
  IF state.finished THEN state
  ELSE IF state.passesInRow + 1 > state.players - 1
    THEN [state EXCEPT !.lastCombo = null,
                       !.passesInRow = 0,
                       !.currentPlayer = (player + 1) % state.players]
  ELSE [state EXCEPT !.passesInRow = state.passesInRow + 1,
                     !.currentPlayer = (player + 1) % state.players]

applyPass(state, player) ==
  IF state.finished THEN state
  ELSE IF state.passesInRow + 1 >= state.players - 1
    THEN [state EXCEPT !.lastCombo = null,
                       !.passesInRow = 0,
                       !.currentPlayer = (player + 1) % state.players]
  ELSE [state EXCEPT !.passesInRow = state.passesInRow + 1,
                     !.currentPlayer = (player + 1) % state.players]

\* ------------------------------------------------------------------------
\* Move heuristic
\* ------------------------------------------------------------------------

\* A card list that may be null (Card[] | null): null, or the list in a
\* record, so that the two compare.
some(cards) == [cards |-> cards]

\* The ranks of a sequence of cards in order of first occurrence.
RECURSIVE firstRanks(_)
firstRanks(cards) ==
  IF cards = <<>> THEN <<>>
  ELSE LET rest == firstRanks(SubSeq(cards, 1, Len(cards) - 1))
           r == cards[Len(cards)].rank
       IN IF indexOf(rest, r) >= 0 THEN rest ELSE Append(rest, r)

\* Property keys that are array indices: Object.entries lists them first, in
\* ascending numeric order, before the other keys in insertion order.
IntegerKeys == <<"2", "3", "4", "5", "6", "7", "8", "9", "10">>

\* The keys of the object groupCardsByRank builds, in Object.entries order;
\* present is the ranks of the cards in insertion order.
entryKeys(present) ==
  SelectSeq(IntegerKeys, LAMBDA r : indexOf(present, r) >= 0)
  \o SelectSeq(present, LAMBDA r : indexOf(IntegerKeys, r) < 0)

\* groupCardsByRank: the object it returns, as a function from the ranks
\* present to their cards in hand order.
groupCardsByRank(cards) ==
  [r \in {cards[i].rank : i \in 1..Len(cards)} |-> SelectSeq(cards, LAMBDA c : c.rank = r)]

\* Object.entries(rankGroups) for the groups of `cards`: [rank, cards] pairs.
entriesOf(rankGroups, keys) ==
  [i \in 1..Len(keys) |-> [rank |-> keys[i], cards |-> rankGroups[keys[i]]]]

groupEntries(cards) == entriesOf(groupCardsByRank(cards), entryKeys(firstRanks(cards)))

\* The body of findStraights for start index i (0-based) and one length.
straightAt(rankGroups, i, length) ==
  IF \A j \in 0..(length - 1) :
       /\ RANKS[i + j + 1] # "2"
       /\ RANKS[i + j + 1] \in DOMAIN rankGroups
       /\ Len(rankGroups[RANKS[i + j + 1]]) # 0
  THEN <<[j \in 1..length |-> rankGroups[RANKS[i + j]][1]]>>
  ELSE <<>>

RECURSIVE straightsLen(_, _, _)
straightsLen(rankGroups, i, length) ==
  IF length > Min(10, Len(RANKS) - i) THEN <<>>
  ELSE straightAt(rankGroups, i, length) \o straightsLen(rankGroups, i, length + 1)

RECURSIVE straightsFrom(_, _)
straightsFrom(rankGroups, i) ==
  IF i >= Len(RANKS) - 2 THEN <<>>
  ELSE straightsLen(rankGroups, i, 3) \o straightsFrom(rankGroups, i + 1)

findStraights(hand) == straightsFrom(groupCardsByRank(hand), 0)

\* The pair and the triple getAllLegalMoves tries for one rank group.
pairTripleOf(cards) ==
  IF Len(cards) >= 2
  THEN <<SubSeq(cards, 1, 2)>> \o (IF Len(cards) >= 3 THEN <<SubSeq(cards, 1, 3)>> ELSE <<>>)
  ELSE <<>>

RECURSIVE pairTriples(_, _)
pairTriples(groups, k) ==
  IF k > Len(groups) THEN <<>>
  ELSE pairTripleOf(groups[k].cards) \o pairTriples(groups, k + 1)

RECURSIVE bombsOf(_, _)
bombsOf(groups, k) ==
  IF k > Len(groups) THEN <<>>
  ELSE (IF Len(groups[k].cards) = 4 THEN <<groups[k].cards>> ELSE <<>>)
       \o bombsOf(groups, k + 1)

\* The candidates of getAllLegalMoves before the legality filter, in the
\* order the source tries them: singles, pairs and triples, straights, bombs.
candidatesOf(hand, rankGroups) ==
  [i \in 1..Len(hand) |-> <<hand[i]>>]
  \o pairTriples(rankGroups, 1)
  \o findStraights(hand)
  \o bombsOf(rankGroups, 1)

candidateMoves(hand) == candidatesOf(hand, groupEntries(hand))

\* getAllLegalMoves that keeps every candidate.
getAllCandidateMoves(state, player) == candidateMoves(state.hands[player])

\* The candidates in the order they are tried, those isLegalMove accepts kept.
getAllLegalMoves(state, player) ==
  SelectSeq(candidateMoves(state.hands[player]),
            LAMBDA move : isLegalMove(state, player, move).ok)

\* scoreSingle that charges 5 for splitting a pair.
scoreSingleSplit5(card, hand) ==
  10 + (IF rankIndex(card.rank) >= 4 /\ rankIndex(card.rank) <= 9 THEN 5 ELSE 0)
     - (IF Len(SelectSeq(SelectSeq(hand, LAMBDA c : c # card), LAMBDA c : c.rank = card.rank)) >= 1
        THEN 5 ELSE 0)

\* The score of a single (lines 442-460).
scoreSingle(card, hand) ==
  10 + (IF rankIndex(card.rank) >= 4 /\ rankIndex(card.rank) <= 9 THEN 5 ELSE 0)
     - (IF Len(SelectSeq(SelectSeq(hand, LAMBDA c : c # card),
                         LAMBDA c : c.rank = card.rank)) >= 1
        THEN 3 ELSE 0)

\* The bonus for a pair or a triple (lines 476-482).
structureBonus(combo) ==
  IF combo # null /\ (combo.type = "pair" \/ combo.type = "triple") THEN 2 ELSE 0

scoreOpeningMove(move, hand) ==
  (IF Len(move) = 1 THEN scoreSingle(move[1], hand)
   ELSE IF Len(move) = 2 THEN 5
   ELSE IF Len(move) = 3 THEN 3
   ELSE IF Len(move) >= 4 THEN 1
   ELSE 0)
  + structureBonus(detectCombo(move))

\* insertScored that puts an item before the items of equal score.
RECURSIVE insertScoredUnstable(_, _)
insertScoredUnstable(sorted, x) ==
  IF sorted = <<>> THEN <<x>>
  ELSE IF sorted[Len(sorted)].score > x.score THEN Append(sorted, x)
  ELSE Append(insertScoredUnstable(SubSeq(sorted, 1, Len(sorted) - 1), x),
              sorted[Len(sorted)])

\* Array.prototype.sort with (a, b) => b.score - a.score: stable, highest
\* score first.  Insertion from the left keeps equal scores in input order.
RECURSIVE insertScored(_, _)
insertScored(sorted, x) ==
  IF sorted = <<>> THEN <<x>>
  ELSE IF sorted[Len(sorted)].score >= x.score THEN Append(sorted, x)
  ELSE Append(insertScored(SubSeq(sorted, 1, Len(sorted) - 1), x), sorted[Len(sorted)])

RECURSIVE sortByScore(_)
sortByScore(items) ==
  IF items = <<>> THEN <<>>
  ELSE insertScored(sortByScore(SubSeq(items, 1, Len(items) - 1)), items[Len(items)])

\* scoredMoves[0]?.move || moves[0] || null
firstMove(scoredMoves, moves) ==
  IF scoredMoves # <<>> THEN some(scoredMoves[1].move)
  ELSE IF moves # <<>> THEN some(moves[1])
  ELSE null

selectBestOpeningMove(moves, state, player) ==
  firstMove(sortByScore([i \in 1..Len(moves) |->
              [move |-> moves[i],
               score |-> scoreOpeningMove(moves[i], state.hands[player])]]),
            moves)

\* The score of a candidate whose combo and comparison are known
\* (lines 494-511).
\* followingScore that rewards a bomb instead of charging for it.
followingScoreBombBonus(combo, comparison, lastCombo) ==
  IF comparison <= 0 THEN -1000
  ELSE comparison * 10
       + (IF combo.type = lastCombo.type /\ Len(combo.cards) = Len(lastCombo.cards)
          THEN 5 ELSE 0)
       + (IF combo.type = "bomb4" THEN 20 ELSE 0)

followingScore(combo, comparison, lastCombo) ==
  IF comparison <= 0 THEN -1000
  ELSE comparison * 10
       + (IF combo.type = lastCombo.type /\ Len(combo.cards) = Len(lastCombo.cards)
          THEN 5 ELSE 0)
       - (IF combo.type = "bomb4" THEN 20 ELSE 0)

scoreCombo(combo, lastCombo) ==
  IF combo = null THEN -1000
  ELSE followingScore(combo, compareCombos(lastCombo, combo), lastCombo)

scoreFollowingMove(move, state) == scoreCombo(detectCombo(move), state.lastCombo)

\* validMoves.length === 0 ? null : validMoves[0].move
firstValid(validMoves) ==
  IF validMoves = <<>> THEN null ELSE some(validMoves[1].move)

selectBestFollowingMove(moves, state, player) ==
  IF state.lastCombo = null THEN (IF moves # <<>> THEN some(moves[1]) ELSE null)
  ELSE firstValid(sortByScore(SelectSeq(
         [i \in 1..Len(moves) |->
            [move |-> moves[i], score |-> scoreFollowingMove(moves[i], state)]],
         LAMBDA item : item.score > -1000)))

selectBestMove(moves, state, player) ==
  IF moves = <<>> THEN null
  ELSE IF state.lastCombo = null THEN selectBestOpeningMove(moves, state, player)
  ELSE selectBestFollowingMove(moves, state, player)

\* aiChooseMove from the list getAllLegalMoves returned.
chooseFrom(legalMoves, state, player) ==
  IF legalMoves = <<>> THEN null
  ELSE selectBestMove(legalMoves, state, player)

\* aiChooseMove: the value of its `play` field, null or some(cards).
aiChooseMove(state, player) ==
  chooseFrom(getAllLegalMoves(state, player), state, player)

\* ------------------------------------------------------------------------
\* The table as a state machine
\* ------------------------------------------------------------------------

VARIABLES
  state,  \* the GameState the callers hold (useState<GameState>)
  hist,   \* the last call made on it and what followed the last play
  inp,    \* the arguments of a call of a pure function
  out     \* its result

vars == <<state, hist, inp, out>>

Seats == 0..3

\* The sequences of the random source the games of the model start from:
\* the generator of the page, seeded 1..NumStreams.
Streams == {lehmerStream(lehmerSeed(seed), Len(tableDeck) - 1) : seed \in 1..NumSeeds}

hist0 == [op |-> "init", lastPlayer |-> -1, played |-> null, passes |-> 0]

Init ==
  /\ \E rng \in Streams : state = initFromDeck(tableDeck, rng)
  /\ hist = hist0
  /\ inp = null
  /\ out = null

\* The card lists a caller may propose from a hand: its non-empty
\* sub-lists, in hand order.
subLists(hand) ==
  {[k \in 1..Len(idx) |-> hand[idx[k]]] :
     idx \in {SelectSeq([i \in 1..Len(hand) |-> i], LAMBDA i : i \in I) :
                I \in SUBSET (1..Len(hand))}}

Selections(hand) == subLists(hand) \ {<<>>}

\* hist: op is the last call ("init", "move", "pass"); lastPlayer and played
\* are the seat and the combo of the last applyMove; passes counts the
\* applyPass calls made on an unfinished table since then (up to players).
histMove(player, combo) ==
  [op |-> "move", lastPlayer |-> player, played |-> combo, passes |-> 0]

histPass ==
  [op |-> "pass", lastPlayer |-> hist.lastPlayer, played |-> hist.played,
   passes |-> IF state.finished THEN hist.passes ELSE Min(hist.passes + 1, state.players)]

\* The end of playSelected (lines 721-726) for the result of isLegalMove.
ApplyLegal(player, legal) ==
  /\ legal.ok
  /\ legal.combo # null
  /\ state' = applyMove(state, player, legal.combo)
  /\ hist' = histMove(player, legal.combo)
  /\ UNCHANGED <<inp, out>>

\* A caller validates a selection of the current seat with isLegalMove and
\* applies it with applyMove (playSelected, lines 720-726, for any seat).
Play ==
  \E cards \in Selections(state.hands[state.currentPlayer]) :
    ApplyLegal(state.currentPlayer, isLegalMove(state, state.currentPlayer, cards))

\* A caller passes for the current seat (passTurn, line 737, for any seat).
Pass ==
  /\ state' = applyPass(state, state.currentPlayer)
  /\ hist' = histPass
  /\ UNCHANGED <<inp, out>>

Next == Play \/ Pass

Spec == Init /\ [][Next]_vars

\* ------------------------------------------------------------------------
\* The same calls with the cards played kept: the game of the model's deck
\* to its end, and the first calls of a game of the full deck
\* ------------------------------------------------------------------------

MaxPlies == 2

\* inp holds the deck dealt and, for the full deck, the calls made; out is
\* the set of the cards of every combo applyMove was given.
InitCards ==
  /\ \/ \E rng \in Streams :
          /\ state = initFromDeck(tableDeck, rng)
          /\ inp = [deck |-> tableDeck, full |-> FALSE, plies |-> 0]
     \/ /\ state = initSinglePlayer(lehmerStream(lehmerSeed(1), Len(buildDeck) - 1))
        /\ inp = [deck |-> buildDeck, full |-> TRUE, plies |-> 0]
  /\ hist = hist0
  /\ out = {}

\* Of the full deck, selections of at most MaxHand cards are proposed.
CardSelections ==
  {cards \in Selections(state.hands[state.currentPlayer]) :
     inp.full => Len(cards) <= MaxHand}

callCounted ==
  /\ inp.full => inp.plies < MaxPlies
  /\ inp' = IF inp.full THEN [inp EXCEPT !.plies = @ + 1] ELSE inp

playCards(player, legal) ==
  /\ legal.ok
  /\ legal.combo # null
  /\ state' = applyMove(state, player, legal.combo)
  /\ hist' = histMove(player, legal.combo)
  /\ out' = out \cup {legal.combo.cards[i] : i \in 1..Len(legal.combo.cards)}

PlayCards ==
  /\ callCounted
  /\ \E cards \in CardSelections :
       playCards(state.currentPlayer, isLegalMove(state, state.currentPlayer, cards))

PassCards ==
  /\ callCounted
  /\ state' = applyPass(state, state.currentPlayer)
  /\ hist' = histPass
  /\ UNCHANGED out

NextCards == PlayCards \/ PassCards

SpecCards == InitCards /\ [][NextCards]_vars

\* ------------------------------------------------------------------------
\* The same calls with the passes of the trick kept
\* ------------------------------------------------------------------------

\* out is [passed, overtaken, back]: the seats that passed since the last
\* play, the seats that passed on the combinations of this trick before the
\* last play, and whether the last play was made by a seat of overtaken.
trick0 == [passed |-> {}, overtaken |-> {}, back |-> FALSE]

\* The game of the first seed.
InitTrick ==
  /\ state = initFromDeck(tableDeck, lehmerStream(lehmerSeed(1), Len(tableDeck) - 1))
  /\ hist = hist0
  /\ inp = null
  /\ out = trick0

playTrick(player, legal) ==
  /\ legal.ok
  /\ legal.combo # null
  /\ state' = applyMove(state, player, legal.combo)
  /\ hist' = histMove(player, legal.combo)
  /\ out' = [passed |-> {},
             overtaken |-> (out.overtaken \cup out.passed) \ {player},
             back |-> player \in out.overtaken]
  /\ UNCHANGED inp

PlayTrick ==
  \E cards \in Selections(state.hands[state.currentPlayer]) :
    playTrick(state.currentPlayer, isLegalMove(state, state.currentPlayer, cards))

PassTrick ==
  /\ state' = applyPass(state, state.currentPlayer)
  /\ hist' = histPass
  /\ out' = IF state.finished THEN out
            ELSE IF state.lastCombo = null \/ state'.lastCombo = null THEN trick0
            ELSE [out EXCEPT !.passed = @ \cup {state.currentPlayer}, !.back = FALSE]
  /\ UNCHANGED inp

NextTrick == PlayTrick \/ PassTrick

SpecTrick == InitTrick /\ [][NextTrick]_vars

\* ------------------------------------------------------------------------
\* The engine called directly: applyMove and applyPass as exported, with no
\* isLegalMove before them, for any seat
\* ------------------------------------------------------------------------

\* After a direct call hist also tells the seat it was made for (by) and,
\* for applyPass, whether that seat was currentPlayer (inTurn).
rawHist(op, player) ==
  [op |-> op, lastPlayer |-> -1, played |-> null, passes |-> 0,
   by |-> player, inTurn |-> op = "rawMove" \/ player = state.currentPlayer]

\* applyMove(state, player, combo) for a combo detected in cards of the
\* seat's hand, not validated.
RawMoveBy(player) ==
  \E cards \in Selections(state.hands[player]) :
    /\ detectCombo(cards) # null
    /\ state' = applyMove(state, player, detectCombo(cards))
    /\ hist' = rawHist("rawMove", player)
    /\ UNCHANGED <<inp, out>>

RawMove == \E player \in Seats : RawMoveBy(player)

\* applyPass(state, player) for any seat.
RawPassBy(player) ==
  /\ state' = applyPass(state, player)
  /\ hist' = rawHist("rawPass", player)
  /\ UNCHANGED <<inp, out>>

RawPass == \E player \in Seats : RawPassBy(player)

NextApi == Play \/ Pass \/ RawMove \/ RawPass

\* The direct calls start from the game of the first seed.
InitApi ==
  /\ state = initFromDeck(tableDeck, lehmerStream(lehmerSeed(1), Len(tableDeck) - 1))
  /\ hist = hist0
  /\ inp = null
  /\ out = null

SpecApi == InitApi /\ [][NextApi]_vars

\* ------------------------------------------------------------------------
\* initSinglePlayer as a function of the random source
\* ------------------------------------------------------------------------

\* What a call that has returned leaves in out when its result is in state.
returned == [type |-> "returned"]

rngValues == {[n |-> k, d |-> RngDen] : k \in 0..(RngDen - 1)}

\* The calls made: the full deck with the generator of the page seeded
\* 1..NumInitSeeds, and the model's deck with every sequence of rngValues.
InitCalls ==
  {[fn |-> "initSinglePlayer", deck |-> buildDeck,
    rng |-> lehmerStream(lehmerSeed(seed), Len(buildDeck) - 1)] : seed \in 1..NumInitSeeds}
  \cup
  {[fn |-> "initSinglePlayer", deck |-> tableDeck, rng |-> rng] :
     rng \in [1..(Len(tableDeck) - 1) -> rngValues]}

InitDeal ==
  /\ inp \in InitCalls
  /\ state = null
  /\ hist = hist0
  /\ out = null

CallInit ==
  /\ inp.fn = "initSinglePlayer"
  /\ out = null
  /\ state' = initFromDeck(inp.deck, inp.rng)
  /\ out' = returned
  /\ UNCHANGED <<hist, inp>>

SpecInit == InitDeal /\ [][CallInit]_vars

\* ------------------------------------------------------------------------
\* cardToString and parseCard
\* ------------------------------------------------------------------------

\* A text is the sequence of its characters; the suit glyphs are the
\* characters "S", "H", "D", "C".
rankText(rank) == IF rank = "10" THEN <<"1", "0">> ELSE <<rank>>

\* `${c.rank}${c.suit}`
cardToString(c) == rankText(c.rank) \o <<c.suit>>

\* s.slice(-1)
lastOf(s) == IF s = <<>> THEN <<>> ELSE <<s[Len(s)]>>

\* s.slice(0, s.length - 1)
allButLast(s) == SubSeq(s, 1, Len(s) - 1)

\* parseCard reading the rank from the first character only.
parseCardFirstChar(s) ==
  IF ~\E i \in 1..Len(SUITS) : lastOf(s) = <<SUITS[i]>> THEN null
  ELSE IF ~\E i \in 1..Len(RANKS) : rankText(RANKS[i]) = SubSeq(s, 1, 1) THEN null
  ELSE [rank |-> RANKS[CHOOSE i \in 1..Len(RANKS) : rankText(RANKS[i]) = SubSeq(s, 1, 1)],
        suit |-> s[Len(s)]]

\* parseCard: null unless the last character is a suit and the text before
\* it is a rank of RANKS.
parseCard(s) ==
  IF ~\E i \in 1..Len(SUITS) : lastOf(s) = <<SUITS[i]>> THEN null
  ELSE IF ~\E i \in 1..Len(RANKS) : rankText(RANKS[i]) = allButLast(s) THEN null
  ELSE [rank |-> RANKS[CHOOSE i \in 1..Len(RANKS) : rankText(RANKS[i]) = allButLast(s)],
        suit |-> s[Len(s)]]

MaxText == 3

\* Characters of rank tokens, the suits, and two characters of neither.
TextChars == {"1", "0", "3", "J", "A", "2", "S", "H", "D", "C", "x", " "}

\* parseCard of every text of at most MaxText characters, and of the text
\* cardToString gives for every card of the deck.
InitParse ==
  /\ \/ \E len \in 0..MaxText : \E text \in [1..len -> TextChars] :
          inp = [fn |-> "parseCard", text |-> text]
     \/ \E i \in 1..Len(buildDeck) :
          inp = [fn |-> "cardToString", card |-> buildDeck[i]]
  /\ state = null
  /\ hist = hist0
  /\ out = null

CallParse ==
  /\ inp.fn = "parseCard"
  /\ out = null
  /\ out' = [result |-> parseCard(inp.text)]
  /\ UNCHANGED <<state, hist, inp>>

CallRoundTrip ==
  /\ inp.fn = "cardToString"
  /\ out = null
  /\ out' = [text |-> cardToString(inp.card),
             result |-> parseCard(cardToString(inp.card))]
  /\ UNCHANGED <<state, hist, inp>>

NextParse == CallParse \/ CallRoundTrip

SpecParse == InitParse /\ [][NextParse]_vars
\* ------------------------------------------------------------------------

DealMaxPlayers == 5

shuffledBy(deck, seed) ==
  shuffle(deck, IF deck = <<>> THEN <<>>
                ELSE lehmerStream(lehmerSeed(seed), Len(deck) - 1))

\* The deck read cyclically in steps of stride, a permutation when stride
\* and the deck's length have no common factor.
strideDeck(deck, stride) ==
  [i \in 1..Len(deck) |-> deck[(((i - 1) * stride) % Len(deck)) + 1]]

DealStrides == {1, 3, 5, 7}

\* The full deck in the order of each stride, and the leading cards of the
\* model's deck, shuffled, with every player count from -1 to
\* DealMaxPlayers.
InitDealPlayers ==
  /\ \E players \in (-1)..DealMaxPlayers :
       \/ \E stride \in DealStrides :
            inp = [fn |-> "dealPlayers", deck |-> strideDeck(buildDeck, stride),
                   players |-> players]
       \/ \E len \in 0..Len(tableDeck) : \E seed \in 1..NumInitSeeds :
            inp = [fn |-> "dealPlayers",
                   deck |-> shuffledBy(SubSeq(tableDeck, 1, len), seed),
                   players |-> players]
  /\ state = null
  /\ hist = hist0
  /\ out = null

CallDealPlayers ==
  /\ inp.fn = "dealPlayers"
  /\ out = null
  /\ out' = dealPlayersCall(inp.deck, inp.players)
  /\ UNCHANGED <<state, hist, inp>>

SpecDealPlayers == InitDealPlayers /\ [][CallDealPlayers]_vars

\* ------------------------------------------------------------------------
\* shuffle as a function of its array and of the values drawn
\* ------------------------------------------------------------------------

MaxShuffle == 4

ShuffleDen == 4

\* Elements of any type; arrays may hold one element several times.
ShuffleItems == {"a", "b", "c"}

shuffleValues == {[n |-> k, d |-> ShuffleDen] : k \in 0..(ShuffleDen - 1)}

\* state is the caller's array, out the results of the calls made so far.
InitShuffle ==
  /\ \E len \in 0..MaxShuffle : \E arr \in [1..len -> ShuffleItems] :
       \E rng \in [1..(len - 1) -> shuffleValues] :
         /\ inp = [fn |-> "shuffle", arr |-> arr, rng |-> rng]
         /\ state = arr
  /\ hist = hist0
  /\ out = <<>>

\* shuffle(state, rng) with a source that yields the values of inp.rng;
\* made twice, the second time on the array the first call left.
CallShuffle ==
  /\ inp.fn = "shuffle"
  /\ Len(out) < 2
  /\ out' = Append(out, shuffle(state, inp.rng))
  /\ state' = shuffleArg(state, inp.rng)
  /\ UNCHANGED <<hist, inp>>

SpecShuffle == InitShuffle /\ [][CallShuffle]_vars

\* ------------------------------------------------------------------------
\* isLegalMove and aiChooseMove as functions of the table
\* ------------------------------------------------------------------------

card(rank, suit) == [rank |-> rank, suit |-> suit]

\* The cards the hand of the seat under test is drawn from, in sorted order:
\* low cards for straights, two pairs, a four of a kind, and the 2s.
HandPool ==
  <<card("3", "C"), card("4", "D"), card("5", "H"), card("6", "C"),
    card("7", "D"), card("7", "S"), card("J", "C"), card("J", "D"),
    card("J", "H"), card("J", "S"), card("2", "D"), card("2", "S")>>

\* The cards the combination on the table is made of; none is in HandPool.
TablePool ==
  <<card("4", "C"), card("5", "C"), card("6", "D"), card("7", "H"),
    card("8", "C"), card("8", "D"), card("8", "H"), card("8", "S"),
    card("9", "H"), card("A", "D")>>

\* What the other seats hold.
fillerHand(seat) == <<card("K", SUIT_ORDER[seat + 1])>>

PoolHands == {h \in subLists(HandPool) : Len(h) \in 1..MaxHand}

LastCombos ==
  {detectCombo(c) : c \in {t \in subLists(TablePool) : Len(t) \in 1..5}} \ {null}

\* A table in play: seat holds hand, cp is to play, last is on the table.
\* When the game is finished the seat before seat has emptied its hand.
tableOf(hand, seat, cp, last, fin) ==
  [players |-> 4,
   hands |-> [s \in 0..3 |->
                IF s = seat THEN hand
                ELSE IF fin /\ s = (seat + 3) % 4 THEN <<>>
                ELSE fillerHand(s)],
   currentPlayer |-> cp,
   lastCombo |-> last,
   passesInRow |-> 0,
   started |-> TRUE,
   finished |-> fin]

\* A call of isLegalMove by the seat to play, with cards of its own hand
\* (InitLegal proposes the whole hand and the hand less one card).
OwnCardCall(hand, cards, last) ==
  /\ state = tableOf(hand, 1, 1, last, FALSE)
  /\ inp = [fn |-> "isLegalMove", player |-> 1, cards |-> cards]

\* Lists of at most two cards, among them cards of either seat, a card of no
\* seat, and the same card twice.
AnyCards ==
  LET pool == <<card("3", "C"), card("7", "D"), card("7", "S"), card("4", "D"), card("A", "D")>>
  IN {<<>>} \cup {<<pool[i]>> : i \in 1..5} \cup {<<pool[i], pool[j]>> : i, j \in 1..5}

\* A call of isLegalMove with any flags, by the seat to play or the next.
AnyCall(isStarted, isFinished, last, player, cards) ==
  /\ state = [players |-> 4,
              hands |-> [s \in 0..3 |->
                 CASE s = 0 -> <<card("3", "C"), card("7", "D"), card("7", "S")>>
                   [] s = 1 -> <<card("4", "D"), card("J", "C")>>
                   [] s = 3 /\ isFinished -> <<>>
                   [] OTHER -> fillerHand(s)],
              currentPlayer |-> 0,
              lastCombo |-> last,
              passesInRow |-> 0,
              started |-> isStarted,
              finished |-> isFinished]
  /\ inp = [fn |-> "isLegalMove", player |-> player, cards |-> cards]

InitLegal ==
  /\ \/ \E hand \in PoolHands :
          \E cards \in {c \in Selections(hand) : Len(c) >= Len(hand) - 1} :
            \E last \in LastCombos \cup {null} : OwnCardCall(hand, cards, last)
     \/ \E isStarted, isFinished \in BOOLEAN : \E player \in {0, 1} :
          \E last \in {null, detectCombo(<<card("5", "C")>>),
                       detectCombo(<<card("8", "C"), card("8", "D")>>)} :
            \E cards \in AnyCards : AnyCall(isStarted, isFinished, last, player, cards)
  /\ hist = hist0
  /\ out = null

CallLegal ==
  /\ inp.fn = "isLegalMove"
  /\ out = null
  /\ out' = [result |-> isLegalMove(state, inp.player, inp.cards)]
  /\ UNCHANGED <<state, hist, inp>>

SpecLegal == InitLegal /\ [][CallLegal]_vars

\* A call of aiChooseMove for seat when cp is to play.
AICall(hand, seat, cp, last, fin) ==
  /\ state = tableOf(hand, seat, cp, last, fin)
  /\ inp = [fn |-> "aiChooseMove", player |-> seat]

\* The seat to play with every hand and table, and, with hands of at most
\* two cards and one card on the table, every seat, on its turn or not, in
\* play or after the end.
InitAI ==
  /\ \/ \E hand \in PoolHands : \E last \in LastCombos \cup {null} :
          AICall(hand, 1, 1, last, FALSE)
     \/ \E hand \in {h \in PoolHands : Len(h) <= 2} :
          \E last \in {null} \cup {c \in LastCombos : Len(c.cards) = 1} :
            \E seat \in Seats : \E turn \in {0, 1} : \E fin \in BOOLEAN :
              /\ fin => last # null
              /\ AICall(hand, seat, (seat + turn) % 4, last, fin)
  /\ hist = hist0
  /\ out = null

CallAI ==
  /\ inp.fn = "aiChooseMove"
  /\ out = null
  /\ out' = [result |-> aiChooseMove(state, inp.player)]
  /\ UNCHANGED <<state, hist, inp>>

SpecAI == InitAI /\ [][CallAI]_vars

\* ------------------------------------------------------------------------
\* detectCombo as a function of a card list
\* ------------------------------------------------------------------------

\* The cards the lists are made of: a four of a kind, a run from 3 to 7,
\* and the top of the rank order with two 2s.
DetectPool ==
  <<card("3", "C"), card("3", "D"), card("3", "H"), card("3", "S"),
    card("4", "D"), card("5", "H"), card("6", "C"), card("7", "S"),
    card("Q", "S"), card("K", "H"), card("A", "D"), card("2", "C"),
    card("2", "S")>>

reverse(seq) == [i \in 1..Len(seq) |-> seq[Len(seq) + 1 - i]]

\* Lists of distinct cards, in sorted order and in the opposite order.
InitDetect ==
  /\ \E cards \in {c \in subLists(DetectPool) : Len(c) <= MaxDetect} :
       \E raw \in {cards, reverse(cards)} :
         inp = [fn |-> "detectCombo", cards |-> raw]
  /\ state = null
  /\ hist = hist0
  /\ out = null

CallDetect ==
  /\ inp.fn = "detectCombo"
  /\ out = null
  /\ out' = [result |-> detectCombo(inp.cards)]
  /\ UNCHANGED <<state, hist, inp>>

SpecDetect == InitDetect /\ [][CallDetect]_vars

\* ------------------------------------------------------------------------
\* compareCombos as a function of two combinations
\* ------------------------------------------------------------------------

\* The cards the compared combinations are made of: two fours of a kind,
\* three 5s, a 6 and a 2.
ComparePool ==
  <<card("3", "C"), card("3", "D"), card("3", "H"), card("3", "S"),
    card("4", "C"), card("4", "D"), card("4", "H"), card("4", "S"),
    card("5", "C"), card("5", "D"), card("5", "S"), card("6", "D"),
    card("2", "H")>>

\* Every combination detectCombo makes of cards of the pool.
CompareCombos == {detectCombo(c) : c \in subLists(ComparePool)} \ {null}

cardSet(combo) == {combo.cards[i] : i \in 1..Len(combo.cards)}

disjointCombos(a, b) == cardSet(a) \cap cardSet(b) = {}

sameShape(a, b) == a.type = b.type /\ Len(a.cards) = Len(b.cards)

\* Any two combinations, and any three of one shape without a common card.
InitCompare ==
  /\ \/ \E a, b \in CompareCombos : inp = [fn |-> "compareCombos", a |-> a, b |-> b, c |-> a]
     \/ \E a \in CompareCombos :
          \E b \in {x \in CompareCombos : sameShape(a, x) /\ disjointCombos(a, x)} :
            \E c \in {x \in CompareCombos : sameShape(a, x) /\ disjointCombos(a, x)
                                            /\ disjointCombos(b, x)} :
              inp = [fn |-> "compareCombos", a |-> a, b |-> b, c |-> c]
  /\ state = null
  /\ hist = hist0
  /\ out = null

\* out.xy is compareCombos(x, y): how y fares against x.
CallCompare ==
  /\ inp.fn = "compareCombos"
  /\ out = null
  /\ out' = [aa |-> compareCombos(inp.a, inp.a),
             ab |-> compareCombos(inp.a, inp.b),
             ba |-> compareCombos(inp.b, inp.a),
             bc |-> compareCombos(inp.b, inp.c),
             ac |-> compareCombos(inp.a, inp.c)]
  /\ UNCHANGED <<state, hist, inp>>

SpecCompare == InitCompare /\ [][CallCompare]_vars

\* ------------------------------------------------------------------------
\* The page: the human at seat 0, the timer playing the other seats
\* ------------------------------------------------------------------------

\* In SpecPage hist holds op, the handler that ran; checked, the state as
\* isLegalMove left it (null when the handler did not call it); winnerMsg
\* and startMsg, the messages of the effects; timer, the pending timeout
\* with the state its callback closes over (null when none); cancelled,
\* whether the cleanup of the timer effect cleared a pending timeout; rng,
\* the value s of the generator; deals, the deals made.  inp is the
\* selection at the click and out the alert shown, null when none.

MaxDeals == 2

\* The tests of the timer effect on the state st.
timerDueIn(st) ==
  /\ ~st.finished
  /\ st.started
  /\ st.currentPlayer # 0

\* The timer effect that returns no cleanup: a pending timeout stays.
timerEffectNoCleanup(st, rendered, pending) ==
  IF ~rendered \/ pending # null THEN pending
  ELSE IF timerDueIn(st) THEN [state |-> st]
  ELSE null

\* The timer effect (deps [state]) after a handler: when a new state was
\* rendered the cleanup clears the pending timeout, and a timeout is set
\* for st when the tests pass.
timerEffect(st, rendered, pending) ==
  IF ~rendered THEN pending
  ELSE IF timerDueIn(st) THEN [state |-> st]
  ELSE null

\* The text of the start message for st: the seat to play and whether it
\* holds the 3 of spades.
startText(st) ==
  <<"Player ", st.currentPlayer,
    IF \E i \in 1..Len(st.hands[st.currentPlayer]) :
         st.hands[st.currentPlayer][i] = [rank |-> "3", suit |-> "S"]
    THEN " starts because they hold the 3S (3 of spades)."
    ELSE " starts (previous winner).">>

\* The start effect (deps started, hands, currentPlayer).
startEffect(st, msg) == IF ~st.started THEN msg ELSE startText(st)

\* The winner effect that names the seat whose turn it is.
winnerEffectCurrent(st, msg) ==
  IF ~st.started THEN msg
  ELSE IF ~st.finished THEN <<>>
  ELSE <<"Player ", st.currentPlayer, " wins the game!">>

\* The winner effect, run after a render with the state st while the
\* message is msg: the text is the sequence of its parts, '' is <<>>.
winnerEffect(st, msg) ==
  IF ~st.started THEN msg
  ELSE IF ~st.finished THEN <<>>
  ELSE <<"Player ", (st.currentPlayer - 1 + st.players) % st.players, " wins the game!">>

\* What a handler leaves in hist, the effects of the render that follows
\* it included.
\* A new state is rendered when setState was given another object: st is
\* not the state before, or it comes from initSinglePlayer.  The timeout
\* whose callback is running is pending no more.
pageHist(op, checked, st) ==
  LET rendered == st # state \/ op \in {"reshuffle", "reinitGame"}
      pending == IF op = "aiTimer" THEN null ELSE hist.timer
  IN [op |-> op, checked |-> checked,
      winnerMsg |-> winnerEffect(st, hist.winnerMsg),
      startMsg |-> startEffect(st, hist.startMsg),
      timer |-> timerEffect(st, rendered, pending),
      cancelled |-> rendered /\ pending # null,
      rng |-> hist.rng, deals |-> hist.deals]

page0 ==
  [op |-> "mount", checked |-> null, winnerMsg |-> <<>>, startMsg |-> <<>>,
   timer |-> null, cancelled |-> FALSE, rng |-> 0, deals |-> 1]

PageStreams ==
  {lehmerStream(lehmerSeed(seed), Len(tableDeck) - 1) : seed \in 1..NumInitSeeds}

\* The page after its first render and effects; the generator is left at
\* the last value the shuffle drew.
InitPage ==
  /\ \E rng \in PageStreams :
       /\ state = initFromDeck(tableDeck, rng)
       /\ hist = [page0 EXCEPT !.rng = rng[Len(rng)].n,
                               !.startMsg = startText(initFromDeck(tableDeck, rng)),
                               !.timer = timerEffect(initFromDeck(tableDeck, rng), TRUE, null)]
  /\ inp = null
  /\ out = null

\* initSinglePlayer(rng) with the generator where the deals before left
\* it, setState, and the start message.
redeal(op, rng) ==
  /\ state' = initFromDeck(tableDeck, rng)
  /\ hist' = [pageHist(op, null, state') EXCEPT !.rng = rng[Len(rng)].n, !.deals = @ + 1]
  /\ inp' = [fn |-> op, selection |-> <<>>]
  /\ out' = null

reshuffle ==
  /\ hist.deals < MaxDeals
  /\ redeal("reshuffle", lehmerStream(hist.rng, Len(tableDeck) - 1))

reinitGame ==
  /\ hist.deals < MaxDeals
  /\ redeal("reinitGame", lehmerStream(hist.rng, Len(tableDeck) - 1))

\* What toggleSelect can have built: cards of the hand on display, and a
\* card of the next seat picked while that seat's hand was on display.
PageSelections ==
  subLists(state.hands[0])
    \cup (IF state.hands[1] # <<>> THEN {<<state.hands[1][1]>>} ELSE {})

illegalAlert(legal) ==
  [alert |-> "Illegal", reason |-> IF legal.reason # "" THEN legal.reason ELSE "invalid"]

\* playSelected after the turn test, given what isLegalMove returned and
\* the state it left.
playChecked(legal, checked) ==
  /\ IF ~legal.ok \/ legal.combo = null
     THEN state' = checked /\ out' = illegalAlert(legal)
     ELSE state' = applyMove(checked, checked.currentPlayer, legal.combo) /\ out' = null
  /\ hist' = pageHist("playSelected", checked, state')

playSelected ==
  \E selection \in PageSelections :
    /\ inp' = [fn |-> "playSelected", selection |-> selection]
    /\ IF state.currentPlayer # 0
       THEN /\ out' = [alert |-> "Wait for your turn."]
            /\ hist' = pageHist("playSelected", null, state)
            /\ UNCHANGED state
       ELSE playChecked(isLegalMove(state, state.currentPlayer, selection),
                        isLegalMoveEffect(state, state.currentPlayer, selection))

\* passTurn without the test of the turn.
passTurnAnyTime ==
  /\ inp' = [fn |-> "passTurn", selection |-> <<>>]
  /\ out' = null
  /\ state' = applyPass(state, state.currentPlayer)
  /\ hist' = pageHist("passTurn", null, state')

passTurn ==
  /\ inp' = [fn |-> "passTurn", selection |-> <<>>]
  /\ IF state.currentPlayer # 0
     THEN out' = [alert |-> "Wait for your turn."] /\ UNCHANGED state
     ELSE out' = null /\ state' = applyPass(state, state.currentPlayer)
  /\ hist' = pageHist("passTurn", null, state')

\* The timer callback that passes whatever aiChooseMove returned.
timerPasses(play, player, st) == state' = applyPass(st, player)

\* The timer callback given the play aiChooseMove returned; st is the
\* state the callback closes over.
timerPlays(play, player, st) ==
  IF play # null /\ Len(play.cards) > 0
       /\ isLegalMove(st, player, play.cards).ok
       /\ isLegalMove(st, player, play.cards).combo # null
  THEN state' = applyMove(isLegalMoveEffect(st, player, play.cards), player,
                          isLegalMove(st, player, play.cards).combo)
  ELSE state' = applyPass(st, player)

\* The tests of the timer effect: a timer is set, and runs, for this state.
timerDue == timerDueIn(state)

\* The pending timeout fires.
aiTimer ==
  /\ hist.timer # null
  /\ timerPlays(aiChooseMove(hist.timer.state, hist.timer.state.currentPlayer),
                hist.timer.state.currentPlayer, hist.timer.state)
  /\ hist' = pageHist("aiTimer", null, state')
  /\ inp' = null
  /\ out' = null

NextPage == playSelected \/ passTurn \/ aiTimer

SpecPage == InitPage /\ [][NextPage]_vars

\* The page with its two buttons that deal again.
NextDeals == NextPage \/ reshuffle \/ reinitGame

SpecDeals == InitPage /\ [][NextDeals]_vars

\* The page of the first NumSeeds seeds, where every pending timeout fires
\* and the human, when seat 0 is to play, comes to play or pass.  humanTurn
\* is a click that changes the state: a legal play or a pass.
humanTurn == (playSelected \/ passTurn) /\ state' # state

InitFair ==
  /\ InitPage
  /\ \E rng \in Streams : state = initFromDeck(tableDeck, rng)

\* WF_vars(aiTimer), with ENABLED <<aiTimer>>_vars written as the guard of
\* aiTimer: the callback always changes the state it closes over.
timerFires == []<>(hist.timer = null) \/ []<><<aiTimer>>_vars

\* Seat 0 is to play: a pass by passTurn changes the state.
humanDue == ~state.finished /\ state.currentPlayer = 0

\* WF_vars(humanTurn), with ENABLED <<humanTurn>>_vars written as humanDue.
humanComes == []<>(~humanDue) \/ []<><<humanTurn>>_vars

SpecFair == InitFair /\ [][NextPage]_vars /\ timerFires /\ humanComes

\* ------------------------------------------------------------------------
\* The lobby server (server.js): sockets, rooms and broadcast
\* ------------------------------------------------------------------------

NumSockets == 3

Sockets == 1..NumSockets

\* A room is [name |-> its name]; null is a client without a room.
roomOf(name) == [name |-> name]

\* The values a message carries in msg.room and msg.text; "" stands for
\* the empty string and for a missing field alike, both of them falsy.
RoomFields == {"", "a", "b"}

TextFields == {"", "hi"}

\* In SpecLobby state is the client of every socket: inClients tells
\* whether the Map holds it, readyState is that of the socket, room is
\* client.room; inp is the event handled last, out the set of messages it
\* sent, hist the handler with the sender and the room broadcast to.
noClient == [inClients |-> FALSE, readyState |-> "CLOSED", room |-> null]

\* broadcast: to every client of the Map, when room is falsy, or else to
\* those of that room; only to sockets that are OPEN.
broadcast(clients, room, data) ==
  {[to |-> c, data |-> data] :
     c \in {c \in Sockets : /\ clients[c].inClients
                           /\ (room = null \/ clients[c].room = room)
                           /\ clients[c].readyState = "OPEN"}}

lobbyHist(op, ws, room) == [op |-> op, from |-> ws, room |-> room]

InitLobby ==
  /\ state = [ws \in Sockets |-> noClient]
  /\ inp = null
  /\ out = {}
  /\ hist = lobbyHist("listen", 0, null)

\* wss.on('connection'): the id is the socket's number.
connection ==
  \E ws \in Sockets :
    /\ ~state[ws].inClients
    /\ state[ws].readyState = "CLOSED"
    /\ state' = [state EXCEPT ![ws] = [inClients |-> TRUE, readyState |-> "OPEN", room |-> null]]
    /\ inp' = [event |-> "connection", ws |-> ws]
    /\ out' = {[to |-> ws, data |-> [type |-> "welcome", id |-> ws]]}
    /\ hist' = lobbyHist("connection", ws, null)

\* A message arrives on an open socket.
received(ws, msg) ==
  /\ state[ws].inClients
  /\ state[ws].readyState = "OPEN"
  /\ inp' = [event |-> "message", ws |-> ws, msg |-> msg]

ping ==
  \E ws \in Sockets :
    /\ received(ws, [type |-> "ping"])
    /\ out' = {[to |-> ws, data |-> [type |-> "pong"]]}
    /\ hist' = lobbyHist("ping", ws, null)
    /\ UNCHANGED state

\* case 'join': client.room = msg.room || 'lobby'
join ==
  \E ws \in Sockets : \E field \in RoomFields :
    LET room == roomOf(IF field = "" THEN "lobby" ELSE field)
        joined == [state EXCEPT ![ws].room = room]
    IN /\ received(ws, [type |-> "join", room |-> field])
       /\ state' = joined
       /\ out' = {[to |-> ws, data |-> [type |-> "joined", room |-> room]]}
                 \cup broadcast(joined, room, [type |-> "presence", who |-> ws, state |-> "joined"])
       /\ hist' = lobbyHist("join", ws, room)

\* case 'chat': broadcast(client.room, ...) with String(msg.text || '')
chat ==
  \E ws \in Sockets : \E text \in TextFields :
    /\ received(ws, [type |-> "chat", text |-> text])
    /\ out' = broadcast(state, state[ws].room, [type |-> "chat", from |-> ws, text |-> text])
    /\ hist' = lobbyHist("chat", ws, state[ws].room)
    /\ UNCHANGED state

\* default: a message of another type is echoed.
echo ==
  \E ws \in Sockets :
    /\ received(ws, [type |-> "other"])
    /\ out' = {[to |-> ws, data |-> [type |-> "echo", data |-> [type |-> "other"]]]}
    /\ hist' = lobbyHist("echo", ws, null)
    /\ UNCHANGED state

\* catch: the text received is not JSON.
invalidJson ==
  \E ws \in Sockets :
    /\ received(ws, [type |-> "not json"])
    /\ out' = {[to |-> ws, data |-> [type |-> "error", message |-> "invalid json"]]}
    /\ hist' = lobbyHist("error", ws, null)
    /\ UNCHANGED state

\* The closing handshake has begun: the socket is no longer OPEN, and its
\* 'close' event has not been emitted yet.
closing ==
  \E ws \in Sockets :
    /\ state[ws].readyState = "OPEN"
    /\ state' = [state EXCEPT ![ws].readyState = "CLOSING"]
    /\ inp' = [event |-> "closing", ws |-> ws]
    /\ out' = {}
    /\ hist' = lobbyHist("closing", ws, null)

\* ws.on('close'): the client leaves the Map, then its room is told.
close ==
  \E ws \in Sockets :
    LET left == [state EXCEPT ![ws] = noClient]
    IN /\ state[ws].inClients
       /\ state' = left
       /\ inp' = [event |-> "close", ws |-> ws]
       /\ out' = IF state[ws].room # null
                 THEN broadcast(left, state[ws].room,
                                [type |-> "presence", who |-> ws, state |-> "left"])
                 ELSE {}
       /\ hist' = lobbyHist("close", ws, state[ws].room)

NextLobby == connection \/ ping \/ join \/ chat \/ echo \/ invalidJson \/ closing \/ close

SpecLobby == InitLobby /\ [][NextLobby]_vars

\* ------------------------------------------------------------------------
\* Properties of the table state machine
\* ------------------------------------------------------------------------

RECURSIVE sumHands(_, _)
sumHands(hands, seat) ==
  IF seat < 0 THEN 0 ELSE Len(hands[seat]) + sumHands(hands, seat - 1)

\* The number of cards over all hands.
totalCards(st) == sumHands(st.hands, st.players - 1)

someHandEmpty(st) == \E seat \in 0..(st.players - 1) : Len(st.hands[seat]) = 0

\* C2: every applyMove of a validated combo lowers the number of cards over
\* all hands by exactly the size of the combo, every applyPass leaves it
\* unchanged, and it never increases.
C2_TotalDecreases ==
  [][/\ hist'.op = "move" =>
          totalCards(state') = totalCards(state) - Len(hist'.played.cards)
     /\ hist'.op = "pass" => totalCards(state') = totalCards(state)
     /\ totalCards(state') <= totalCards(state)]_vars

\* A combo of several cards has just been played.
C2_Witness == hist.op = "move" /\ Len(hist.played.cards) >= 2

\* C3: in an unfinished game, players-1 applyPass calls after a play leave
\* lastCombo absent and passesInRow 0; after fewer, lastCombo is still the
\* combo played (and right after the play passesInRow is 0).
C3_TrickClears ==
  (~state.finished /\ hist.played # null) =>
    /\ hist.passes = 0 => state.passesInRow = 0
    /\ hist.passes < state.players - 1 => state.lastCombo = hist.played
    /\ hist.passes = state.players - 1 =>
         (state.lastCombo = null /\ state.passesInRow = 0)

\* Exactly players-1 passes have followed a play.
C3_Witness ==
  ~state.finished /\ hist.played # null /\ hist.op = "pass"
  /\ hist.passes = state.players - 1

\* C4: when the other players-1 seats have passed after the play of seat p,
\* which did not empty its hand, it is p's turn and the table is clear.
C4_LastPlayerOpens ==
  (~state.finished /\ hist.lastPlayer >= 0 /\ hist.passes = state.players - 1) =>
    (state.currentPlayer = hist.lastPlayer /\ state.lastCombo = null)

\* Seat 2 played, the three other seats passed, and seat 2 can open.
C4_Witness ==
  /\ ~state.finished /\ hist.lastPlayer = 2 /\ hist.passes = state.players - 1
  /\ \E cards \in Selections(state.hands[2]) : isLegalMove(state, 2, cards).ok

\* C5 as stated: an empty hand means finished, and once finished no call
\* changes any hand.
C5_NoCallChangesHands ==
  /\ [](someHandEmpty(state) => state.finished)
  /\ [][state.finished => state'.hands = state.hands]_vars

\* C5 amended: an empty hand means finished, and once finished no applyPass
\* call and no applyMove of a combo validated by isLegalMove changes any hand.
C5_NoValidatedCallChangesHands ==
  /\ [](someHandEmpty(state) => state.finished)
  /\ [][(state.finished /\ hist'.op \in {"move", "pass", "rawPass"}) =>
          state'.hands = state.hands]_vars

\* applyPass has been called on a finished table.
C5_Witness == state.finished /\ someHandEmpty(state) /\ hist.op \in {"pass", "rawPass"}

\* C6: finished is true exactly when some seat's hand is empty.
C6_FinishedIffEmptyHand == state.finished <=> someHandEmpty(state)

\* A move has emptied a hand.
C6_Witness == hist.op = "move" /\ someHandEmpty(state)

\* C7: currentPlayer is a seat index, also after the finishing move.
C7_CurrentPlayerValid == state.currentPlayer \in 0..(state.players - 1)

\* The last seat has finished the game and the turn wrapped to seat 0.
C7_Witness == state.finished /\ hist.op = "move" /\ hist.lastPlayer = state.players - 1

\* ------------------------------------------------------------------------
\* Properties of initSinglePlayer
\* ------------------------------------------------------------------------

holdsOpeningCard(hand) ==
  \E i \in 1..Len(hand) : hand[i] = [rank |-> "3", suit |-> "C"]

\* C8: whatever the random source yields, initSinglePlayer returns a
\* 4-player state whose currentPlayer is the seat holding the 3 of clubs,
\* with lastCombo absent, passesInRow 0, started true and finished false.
C8_StarterHoldsOpeningCard ==
  out = returned =>
    /\ state.players = 4
    /\ DOMAIN state.hands = 0..3
    /\ state.currentPlayer \in 0..3
    /\ holdsOpeningCard(state.hands[state.currentPlayer])
    /\ \A seat \in 0..3 : holdsOpeningCard(state.hands[seat]) => seat = state.currentPlayer
    /\ state.lastCombo = null
    /\ state.passesInRow = 0
    /\ state.started
    /\ ~state.finished

\* The full deck has been dealt, 13 cards a seat, and the last seat starts.
C8_Witness ==
  /\ out = returned
  /\ \A seat \in 0..3 : Len(state.hands[seat]) = 13
  /\ state.currentPlayer = 3

\* ------------------------------------------------------------------------
\* Properties of aiChooseMove and isLegalMove
\* ------------------------------------------------------------------------

\* C1: when aiChooseMove returns a card list for a seat, isLegalMove accepts
\* that list for that seat on the same table.
C1_AIMoveIsLegal ==
  (out # null /\ out.result # null) =>
    isLegalMove(state, inp.player, out.result.cards).ok

\* The seat to play answers a pair on the table with a pair of its own.
C1_Witness ==
  /\ out # null
  /\ out.result # null
  /\ state.lastCombo # null
  /\ state.lastCombo.type = "pair"
  /\ Len(out.result.cards) = 2

\* The call is by the seat to play on a started, unfinished table, and the
\* cards are distinct cards of its hand.
ownDistinctCards ==
  /\ state.started
  /\ ~state.finished
  /\ inp.player = state.currentPlayer
  /\ \A i, j \in 1..Len(inp.cards) : inp.cards[i] = inp.cards[j] => i = j
  /\ \A i \in 1..Len(inp.cards) :
       \E k \in 1..Len(state.hands[inp.player]) : state.hands[inp.player][k] = inp.cards[i]

beatsTable(st, combo) ==
  st.lastCombo = null \/ compareCombos(st.lastCombo, combo) > 0

\* C9: for the seat to play and distinct cards of its hand, isLegalMove
\* accepts exactly when detectCombo recognises the cards and either nothing
\* is on the table or compareCombos(lastCombo, combo) > 0; a recognised
\* combination that does not beat the table is rejected with the reason
\* 'does not beat last combo'.
C9_LegalIffRecognisedAndBeats ==
  (out # null /\ ownDistinctCards) =>
    /\ out.result.ok <=>
         (detectCombo(inp.cards) # null /\ beatsTable(state, detectCombo(inp.cards)))
    /\ (detectCombo(inp.cards) # null /\ ~beatsTable(state, detectCombo(inp.cards))) =>
         (~out.result.ok /\ out.result.reason = "does not beat last combo")

\* A straight of the hand is refused against a higher straight on the table.
C9_Witness ==
  /\ out # null
  /\ ownDistinctCards
  /\ state.lastCombo # null
  /\ state.lastCombo.type = "straight"
  /\ detectCombo(inp.cards) # null
  /\ detectCombo(inp.cards).type = "straight"
  /\ ~out.result.ok
  /\ out.result.reason = "does not beat last combo"

\* Every card of the list is in the hand at least as often as in the list.
holdsAll(hand, cards) ==
  \A i \in 1..Len(cards) :
    Cardinality({k \in 1..Len(cards) : cards[k] = cards[i]})
      <= Cardinality({k \in 1..Len(hand) : hand[k] = cards[i]})

\* The first reason that applies, in the order of C10; "" when none does.
firstReason(st, player, cards) ==
  IF st.finished THEN "game finished"
  ELSE IF ~st.started THEN "game not started"
  ELSE IF player # st.currentPlayer THEN "not your turn"
  ELSE IF ~holdsAll(st.hands[player], cards) THEN "card not in hand"
  ELSE IF detectCombo(cards) = null THEN "invalid combo"
  ELSE IF ~beatsTable(st, detectCombo(cards)) THEN "does not beat last combo"
  ELSE ""

\* C10: isLegalMove reports the first reason that applies in the order game
\* finished, game not started, not your turn, card not in hand, invalid
\* combo, does not beat last combo, and accepts when none applies.
C10_RejectionPriority ==
  out # null =>
    /\ out.result.reason = firstReason(state, inp.player, inp.cards)
    /\ out.result.ok <=> (firstReason(state, inp.player, inp.cards) = "")

\* A seat that is not to play proposes a card it does not hold.
C10_Witness ==
  /\ out # null
  /\ state.started
  /\ ~state.finished
  /\ inp.player # state.currentPlayer
  /\ ~holdsAll(state.hands[inp.player], inp.cards)
  /\ out.result.reason = "not your turn"

\* ------------------------------------------------------------------------
\* Properties of the page
\* ------------------------------------------------------------------------

\* C11: isLegalMove leaves the state as it was whatever it returns, and
\* playSelected leaves it as it was whenever it shows an alert (the result
\* was not ok, or it was not the human's turn).
C11_RejectedMoveChangesNothing ==
  [][hist'.op = "playSelected" =>
       /\ hist'.checked # null => hist'.checked = state
       /\ (state.currentPlayer = 0
           /\ ~isLegalMove(state, 0, inp'.selection).ok) =>
            (state' = state /\ out' # null /\ out'.alert = "Illegal")
       /\ out' # null => state' = state]_vars

\* The human's selection has just been refused for not beating the table.
C11_Witness ==
  /\ hist.op = "playSelected"
  /\ hist.checked = state
  /\ out # null
  /\ out.alert = "Illegal"
  /\ out.reason = "does not beat last combo"

\* ------------------------------------------------------------------------
\* Properties of compareCombos
\* ------------------------------------------------------------------------

isBomb(combo) == combo.type = "bomb4"

\* C12: against a bomb prev, next gets 1 only as a bomb of strictly higher
\* rank and every non-bomb next gets -1; against a non-bomb prev every bomb
\* next gets 1.
C12_BombRule ==
  out # null =>
    /\ isBomb(inp.a) =>
         /\ out.ab = 1 <=> (isBomb(inp.b)
                            /\ rankIndex(inp.b.primaryRank) > rankIndex(inp.a.primaryRank))
         /\ ~isBomb(inp.b) => out.ab = -1
    /\ (~isBomb(inp.a) /\ isBomb(inp.b)) => out.ab = 1

\* A bomb has been compared with a higher bomb, in both orders.
C12_Witness ==
  /\ out # null
  /\ isBomb(inp.a) /\ isBomb(inp.b)
  /\ out.ab = 1 /\ out.ba = -1

\* C13: two non-bomb combinations of different types or sizes give -1 in
\* both orders.
C13_ShapeMismatchRejected ==
  (out # null /\ ~isBomb(inp.a) /\ ~isBomb(inp.b) /\ ~sameShape(inp.a, inp.b)) =>
    (out.ab = -1 /\ out.ba = -1)

\* A straight of 3 has been compared with a straight of 4 of higher rank.
C13_Witness ==
  /\ out # null
  /\ inp.a.type = "straight" /\ inp.b.type = "straight"
  /\ Len(inp.a.cards) = 3 /\ Len(inp.b.cards) = 4
  /\ rankIndex(inp.b.primaryRank) > rankIndex(inp.a.primaryRank)
  /\ out.ab = -1

\* The card of a combination that no other card of it sorts after.
topCard(combo) ==
  CHOOSE t \in cardSet(combo) : \A d \in cardSet(combo) :
    \/ rankIndex(d.rank) < rankIndex(t.rank)
    \/ rankIndex(d.rank) = rankIndex(t.rank) /\ suitIndex(d.suit) <= suitIndex(t.suit)

\* C14: two non-bomb combinations of one type and size are ordered by
\* primaryRank, then by the suit of the highest-sorted card of each in the
\* order clubs < diamonds < hearts < spades; 0 only when both are equal.
C14_RankThenSuit ==
  (out # null /\ ~isBomb(inp.a) /\ ~isBomb(inp.b) /\ sameShape(inp.a, inp.b)) =>
    /\ inp.a.primaryRank # inp.b.primaryRank =>
         out.ab = sign(rankIndex(inp.b.primaryRank) - rankIndex(inp.a.primaryRank))
    /\ inp.a.primaryRank = inp.b.primaryRank =>
         out.ab = sign(indexOf(SUIT_ORDER, topCard(inp.b).suit)
                       - indexOf(SUIT_ORDER, topCard(inp.a).suit))
    /\ out.ab = 0 <=> (inp.a.primaryRank = inp.b.primaryRank
                       /\ topCard(inp.a).suit = topCard(inp.b).suit)

\* Two pairs of one rank have been told apart by the suit of their top card.
C14_Witness ==
  /\ out # null
  /\ inp.a.type = "pair" /\ inp.b.type = "pair"
  /\ inp.a.primaryRank = inp.b.primaryRank
  /\ topCard(inp.a).suit = "H" /\ topCard(inp.b).suit = "S"
  /\ out.ab = 1

\* C15: among combinations of one shape without a common card, beating is
\* irreflexive, asymmetric (compareCombos(a,b) = -compareCombos(b,a)),
\* transitive and total; over all combinations no two beat each other.
C15_BeatsIsStrictTotalOrder ==
  out # null =>
    /\ ~(out.aa > 0)
    /\ (sameShape(inp.a, inp.b) /\ disjointCombos(inp.a, inp.b)) =>
         /\ out.ab = 0 - out.ba
         /\ (out.ab > 0) # (out.ba > 0)
    /\ (sameShape(inp.a, inp.b) /\ sameShape(inp.b, inp.c)
        /\ disjointCombos(inp.a, inp.b) /\ disjointCombos(inp.b, inp.c)
        /\ disjointCombos(inp.a, inp.c)
        /\ out.ab > 0 /\ out.bc > 0) => out.ac > 0
    /\ ~(out.ab > 0 /\ out.ba > 0)

\* Three straights without a common card, each beaten by the next.
C15_Witness ==
  /\ out # null
  /\ inp.a.type = "straight"
  /\ disjointCombos(inp.a, inp.b) /\ disjointCombos(inp.b, inp.c)
  /\ disjointCombos(inp.a, inp.c)
  /\ out.ab > 0 /\ out.bc > 0 /\ out.ac > 0

\* ------------------------------------------------------------------------
\* Properties of detectCombo
\* ------------------------------------------------------------------------

rankSet(cards) == {cards[i].rank : i \in 1..Len(cards)}

\* The ranks are pairwise different, none is "2", and they are consecutive
\* in the order of RANKS.
consecutiveRanks(cards) ==
  /\ Cardinality(rankSet(cards)) = Len(cards)
  /\ "2" \notin rankSet(cards)
  /\ \E lo \in 0..(Len(RANKS) - 1) :
       {indexOf(RANKS, r) : r \in rankSet(cards)} = lo..(lo + Len(cards) - 1)

\* The type C16 gives a list of distinct cards; "none" when it gives null.
typeOf(cards) ==
  CASE Len(cards) = 1 -> "single"
    [] Len(cards) = 2 /\ Cardinality(rankSet(cards)) = 1 -> "pair"
    [] Len(cards) = 3 /\ Cardinality(rankSet(cards)) = 1 -> "triple"
    [] Len(cards) = 4 /\ Cardinality(rankSet(cards)) = 1 -> "bomb4"
    [] Len(cards) >= 3 /\ consecutiveRanks(cards) -> "straight"
    [] OTHER -> "none"

\* C16: detectCombo gives null for no card, single for one, pair, triple
\* and bomb4 for 2, 3 and 4 cards of one rank, straight for at least 3 cards
\* of pairwise different consecutive ranks without a 2, and null otherwise.
C16_DetectByShape ==
  out # null =>
    /\ out.result = null <=> typeOf(inp.cards) = "none"
    /\ out.result # null => out.result.type = typeOf(inp.cards)

\* King, ace and 2 have been refused as a straight.
C16_Witness ==
  /\ out # null
  /\ rankSet(inp.cards) = {"K", "A", "2"}
  /\ Len(inp.cards) = 3
  /\ out.result = null

\* ------------------------------------------------------------------------
\* Further properties of the table state machine
\* ------------------------------------------------------------------------

sortedCards(cards) ==
  \A i \in 1..(Len(cards) - 1) :
    \/ indexOf(RANKS, cards[i].rank) < indexOf(RANKS, cards[i + 1].rank)
    \/ /\ cards[i].rank = cards[i + 1].rank
       /\ indexOf(SUIT_ORDER, cards[i].suit) <= indexOf(SUIT_ORDER, cards[i + 1].suit)

wellFormed(combo) ==
  /\ Len(combo.cards) >= 1
  /\ sortedCards(combo.cards)
  /\ combo.type = typeOf(combo.cards)
  /\ IF combo.type = "straight"
     THEN /\ combo.primaryRank \in rankSet(combo.cards)
          /\ \A r \in rankSet(combo.cards) :
               indexOf(RANKS, r) <= indexOf(RANKS, combo.primaryRank)
     ELSE rankSet(combo.cards) = {combo.primaryRank}

\* C17: lastCombo is absent or a well-formed combination: cards non-empty
\* and sorted by rank then suit, of the shape its type names, primaryRank
\* the shared rank, or the highest rank of a straight.
C17_LastComboWellFormed ==
  state.lastCombo # null => wellFormed(state.lastCombo)

\* A straight lies on the table.
C17_Witness ==
  /\ state.lastCombo # null
  /\ state.lastCombo.type = "straight"
  /\ hist.op = "move"

\* The hand without the cards of the combo, each taken out once.
handLess(hand, cards) ==
  SelectSeq(hand, LAMBDA h : \A i \in 1..Len(cards) : cards[i] # h)

\* C18: applyMove of a validated combo takes exactly the combo's cards out
\* of the seat's hand, leaves every other hand as it was, sets lastCombo to
\* the combo and passesInRow to 0, and gives the turn to (seat + 1) mod
\* players, also when the move ends the game.
C18_ApplyMoveEffect ==
  [][hist'.op = "move" =>
       /\ state'.hands[hist'.lastPlayer]
            = handLess(state.hands[hist'.lastPlayer], hist'.played.cards)
       /\ Len(state'.hands[hist'.lastPlayer])
            = Len(state.hands[hist'.lastPlayer]) - Len(hist'.played.cards)
       /\ \A seat \in 0..(state.players - 1) :
            seat # hist'.lastPlayer => state'.hands[seat] = state.hands[seat]
       /\ state'.lastCombo = hist'.played
       /\ state'.passesInRow = 0
       /\ state'.currentPlayer = (hist'.lastPlayer + 1) % state.players
       /\ state'.players = state.players
       /\ state'.started = state.started]_vars

\* A move of several cards has ended the game, and the turn went on.
C18_Witness ==
  /\ hist.op = "move"
  /\ state.finished
  /\ Len(hist.played.cards) >= 2
  /\ state.currentPlayer = (hist.lastPlayer + 1) % state.players

\* C19: in an unfinished game the pass of the seat to play is always
\* accepted; it leaves every hand as it was, gives the turn to the next
\* seat, and leaves lastCombo as it was unless it is the (players-1)-th pass
\* in a row, which clears it.
C19_PassAlwaysAccepted ==
  /\ [](~state.finished => ENABLED Pass)
  /\ [][(hist'.op = "pass" /\ ~state.finished) =>
          /\ state'.hands = state.hands
          /\ state'.currentPlayer = (state.currentPlayer + 1) % state.players
          /\ state.passesInRow + 1 # state.players - 1 =>
               state'.lastCombo = state.lastCombo
          /\ state.passesInRow + 1 = state.players - 1 => state'.lastCombo = null]_vars

\* The seat that has just passed holds a combination that beats the table.
C19_Witness ==
  /\ hist.op = "pass"
  /\ ~state.finished
  /\ state.lastCombo # null
  /\ \E cards \in Selections(state.hands[(state.currentPlayer + 3) % 4]) :
       detectCombo(cards) # null /\ compareCombos(state.lastCombo, detectCombo(cards)) > 0

\* ------------------------------------------------------------------------
\* Further properties of aiChooseMove
\* ------------------------------------------------------------------------

\* Some card list taken from the seat's hand is accepted by isLegalMove.
hasLegalPlay(st, player) ==
  \E cards \in Selections(st.hands[player]) : isLegalMove(st, player, cards).ok

\* C20: aiChooseMove returns null only when isLegalMove accepts no card
\* list taken from the seat's hand.
C20_NullOnlyWithoutLegalPlay ==
  (out # null /\ out.result = null) => ~hasLegalPlay(state, inp.player)

\* The opening score as C21 words it.
openingScore(move, hand) ==
  IF Len(move) = 1
  THEN 10
       + (IF indexOf(RANKS, move[1].rank) \in 4..9 THEN 5 ELSE 0)
       - (IF \E i \in 1..Len(hand) : hand[i] # move[1] /\ hand[i].rank = move[1].rank
          THEN 3 ELSE 0)
  ELSE (CASE Len(move) = 2 -> 5 [] Len(move) = 3 -> 3 [] OTHER -> 1)
       + (IF typeOf(move) \in {"pair", "triple"} THEN 2 ELSE 0)

\* The seat asked is to play on a clear table of a game in progress.
opensTrick ==
  /\ out # null
  /\ state.started
  /\ ~state.finished
  /\ inp.player = state.currentPlayer
  /\ state.lastCombo = null

\* C21: on a clear table aiChooseMove returns the legal candidate of the
\* highest opening score, and of those of equal score the one tried first.
C21_BestOpeningFirstTried ==
  opensTrick =>
    /\ out.result # null
    /\ \E k \in 1..Len(getAllLegalMoves(state, inp.player)) :
         /\ getAllLegalMoves(state, inp.player)[k] = out.result.cards
         /\ \A m \in 1..Len(getAllLegalMoves(state, inp.player)) :
              /\ openingScore(getAllLegalMoves(state, inp.player)[m], state.hands[inp.player])
                   <= openingScore(out.result.cards, state.hands[inp.player])
              /\ openingScore(getAllLegalMoves(state, inp.player)[m], state.hands[inp.player])
                   = openingScore(out.result.cards, state.hands[inp.player]) => k <= m

\* The first of two singles of the same highest score has been chosen, from
\* a hand that also holds a pair.
C21_Witness ==
  /\ opensTrick
  /\ out.result # null
  /\ Len(out.result.cards) = 1
  /\ \E i, j \in 1..Len(state.hands[inp.player]) :
       /\ i < j
       /\ state.hands[inp.player][i] = out.result.cards[1]
       /\ openingScore(<<state.hands[inp.player][j]>>, state.hands[inp.player])
            = openingScore(out.result.cards, state.hands[inp.player])
  /\ \E c \in Selections(state.hands[inp.player]) : typeOf(c) = "pair"

\* aiChooseMove has returned a move while a combination lies on the table.
followsTrick ==
  /\ out # null
  /\ state.lastCombo # null
  /\ out.result # null

\* C22: with a combination on the table, the move aiChooseMove returns beats
\* it, and it is a bomb only when no candidate that is not a bomb beats it.
C22_BeatsAndBombOnlyForced ==
  followsTrick =>
    /\ detectCombo(out.result.cards) # null
    /\ compareCombos(state.lastCombo, detectCombo(out.result.cards)) > 0
    /\ typeOf(out.result.cards) = "bomb4" =>
         \A m \in 1..Len(candidateMoves(state.hands[inp.player])) :
           typeOf(candidateMoves(state.hands[inp.player])[m]) # "bomb4" =>
             compareCombos(state.lastCombo,
                           detectCombo(candidateMoves(state.hands[inp.player])[m])) <= 0

\* A bomb has been returned against a table that is not a bomb.
C22_Witness ==
  /\ followsTrick
  /\ typeOf(out.result.cards) = "bomb4"
  /\ ~isBomb(state.lastCombo)

\* A single has been returned from a hand that holds a bomb.
C22_WitnessBombKept ==
  /\ followsTrick
  /\ typeOf(out.result.cards) = "single"
  /\ typeOf(state.hands[inp.player]) = "bomb4"

countOf(seq, x) == Cardinality({i \in 1..Len(seq) : seq[i] = x})

\* C23: shuffle returns a sequence of the length of its input that holds
\* every element as many times as the input does, the input keeps its
\* elements, and a second call with the same input and the same values drawn
\* returns what the first did.
C23_ShufflePermutes ==
  /\ \A r \in 1..Len(out) :
       /\ Len(out[r]) = Len(inp.arr)
       /\ \A x \in ShuffleItems : countOf(out[r], x) = countOf(inp.arr, x)
  /\ out # <<>> => state = inp.arr
  /\ Len(out) = 2 => out[1] = out[2]

\* Two calls have been made on an array that holds an element twice, and
\* the result is in another order than the input.
C23_Witness ==
  /\ Len(out) = 2
  /\ out[1] # inp.arr
  /\ \E x \in ShuffleItems : countOf(inp.arr, x) = 2

\* The 0-based deck positions dealt to seat s of n.
positionsOf(deck, n, s) == {i \in 0..(Len(deck) - 1) : i % n = s}

\* C24: for n >= 1 dealPlayers returns n hands, hand s holding exactly the
\* deck cards at the positions i with i mod n = s, sorted by rank then suit;
\* the 52-card deck dealt to 4 gives 13 cards to every hand.
C24_DealRoundRobinSorted ==
  (out # null /\ inp.players >= 1) =>
    /\ out.type = "returned"
    /\ DOMAIN out.hands = 0..(inp.players - 1)
    /\ \A s \in 0..(inp.players - 1) :
         /\ Len(out.hands[s]) = Cardinality(positionsOf(inp.deck, inp.players, s))
         /\ {out.hands[s][k] : k \in 1..Len(out.hands[s])}
              = {inp.deck[i + 1] : i \in positionsOf(inp.deck, inp.players, s)}
         /\ sortedCards(out.hands[s])
         /\ (Len(inp.deck) = 52 /\ inp.players = 4) => Len(out.hands[s]) = 13

\* The shuffled 52-card deck has been dealt to 4, and a hand does not start
\* with the first card it was dealt.
C24_Witness ==
  /\ out # null
  /\ Len(inp.deck) = 52
  /\ inp.players = 4
  /\ out.type = "returned"
  /\ \E s \in 0..3 : out.hands[s][1] # inp.deck[s + 1]

\* C25: dealing with a player count of 0 or less ends in an outcome that
\* reports InvalidConfiguration to the caller; nothing is thrown and no
\* hands are returned.
C25_BadCountReported ==
  (out # null /\ inp.players <= 0) =>
    /\ out.type # "thrown"
    /\ out.type # "returned"
    /\ out.type = "failed" /\ out.reason = "InvalidConfiguration"

\* The texts of a rank token followed by a suit glyph.
cardTexts ==
  {rankText(RANKS[r]) \o <<SUITS[g]>> : r \in 1..Len(RANKS), g \in 1..Len(SUITS)}

\* C26: parseCard(cardToString(c)) is c for every card of the deck, and
\* parseCard gives null for every text that is not a rank token followed by
\* a suit glyph, the empty text included.
C26_ParseInvertsToString ==
  out # null =>
    /\ inp.fn = "cardToString" => out.result = inp.card
    /\ (inp.fn = "parseCard" /\ inp.text \notin cardTexts) => out.result = null

\* The 10 of a suit has been written and read back.
C26_Witness ==
  /\ out # null
  /\ inp.fn = "cardToString"
  /\ inp.card.rank = "10"
  /\ Len(out.text) = 3

\* The empty text, and a text that ends in a suit after no rank, have been
\* parsed.
C26_WitnessRejected ==
  /\ out # null
  /\ inp.fn = "parseCard"
  /\ inp.text \in {<<>>, <<"1", "S">>}
  /\ out.result = null

cardsOf(seq) == {seq[i] : i \in 1..Len(seq)}

cardsInHands == UNION {cardsOf(state.hands[s]) : s \in Seats}

\* C27: buildDeck holds 52 pairwise different cards, and in every state
\* reached by validated moves and passes no hand holds a card twice, no two
\* hands share a card, the cards in hands and the cards played are together
\* exactly the cards of the deck dealt, a card played is in no hand, and no
\* card of lastCombo is in a hand.
C27_CardsConserved ==
  /\ Len(buildDeck) = 52
  /\ Cardinality(cardsOf(buildDeck)) = 52
  /\ cardsOf(buildDeck) = {card(r, g) : r \in cardsOf(RANKS), g \in cardsOf(SUITS)}
  /\ \A s \in Seats : Cardinality(cardsOf(state.hands[s])) = Len(state.hands[s])
  /\ \A s, t \in Seats : s # t => cardsOf(state.hands[s]) \cap cardsOf(state.hands[t]) = {}
  /\ cardsInHands \cup out = cardsOf(inp.deck)
  /\ cardsInHands \cap out = {}
  /\ state.lastCombo # null => cardsOf(state.lastCombo.cards) \cap cardsInHands = {}

\* Two moves have been applied to the game of the full deck.
C27_Witness ==
  /\ inp.full
  /\ inp.plies = 2
  /\ Cardinality(out) >= 2
  /\ state.lastCombo # null
  /\ hist.op = "move"

\* The game of the model's deck has ended with every card but those of the
\* losing hands played.
C27_WitnessEnd ==
  /\ ~inp.full
  /\ state.finished
  /\ Cardinality(out) >= 3

\* The seat to play proposes a card more often than its hand holds it.
namesCardTwice ==
  /\ state.started
  /\ ~state.finished
  /\ inp.player = state.currentPlayer
  /\ \E i \in 1..Len(inp.cards) :
       countOf(inp.cards, inp.cards[i]) > countOf(state.hands[inp.player], inp.cards[i])

\* C28: a request of the seat to play that names a card more often than the
\* hand holds it is rejected with 'card not in hand', also when the cards
\* named have the shape of a pair.
C28_SameCardTwiceRejected ==
  (out # null /\ namesCardTwice) =>
    /\ ~out.result.ok
    /\ out.result.reason = "card not in hand"

\* A card the hand holds once has been proposed twice on a clear table.
C28_Witness ==
  /\ out # null
  /\ namesCardTwice
  /\ Len(inp.cards) = 2
  /\ inp.cards[1] = inp.cards[2]
  /\ countOf(state.hands[inp.player], inp.cards[1]) = 1
  /\ state.lastCombo = null
  /\ typeOf(inp.cards) = "pair"

emptySeats(st) == {s \in 0..(st.players - 1) : st.hands[s] = <<>>}

previousSeat(st) == (st.currentPlayer + st.players - 1) % st.players

\* C29: in every finished state of the page exactly one seat has an empty
\* hand, it is the seat before currentPlayer in turn order, and the message
\* names it as the winner.
C29_WinnerIsPreviousSeat ==
  state.finished =>
    /\ emptySeats(state) = {previousSeat(state)}
    /\ hist.winnerMsg # <<>>
    /\ hist.winnerMsg[2] \in emptySeats(state)

\* The timer has played the last card of seat 3, and the turn is back at
\* seat 0.
C29_Witness ==
  /\ state.finished
  /\ state.currentPlayer = 0
  /\ hist.op = "aiTimer"
  /\ hist.winnerMsg[2] = 3

\* The human has played the last card of seat 0.
C29_WitnessHuman ==
  /\ state.finished
  /\ hist.op = "playSelected"
  /\ hist.winnerMsg[2] = 0

\* A click of the human that changes the state.
humanActs == (playSelected \/ passTurn) /\ state' # state

\* The state after applyMove or applyPass by seat.
actedBy(seat) ==
  /\ state'.currentPlayer = (seat + 1) % state.players
  /\ \A s \in Seats : s # seat => state'.hands[s] = state.hands[s]

\* C30: a click of the human changes the state only when currentPlayer is
\* 0, the timer changes it only when currentPlayer is not 0 in a game
\* started and unfinished, every change is the move or pass of the seat that
\* is currentPlayer, and in no state for which the timer is set can a click
\* change the state.
C30_OnlyCurrentSeatActs ==
  /\ [][state' # state =>
          /\ hist'.op \in {"playSelected", "passTurn"} => state.currentPlayer = 0
          /\ hist'.op = "aiTimer" =>
               (state.currentPlayer # 0 /\ state.started /\ ~state.finished)
          /\ actedBy(state.currentPlayer)]_vars
  /\ [](~(timerDue /\ ENABLED humanActs))

\* The human has clicked pass while seat 2 is to play, and was told to wait.
C30_Witness ==
  /\ hist.op = "passTurn"
  /\ state.currentPlayer = 2
  /\ out # null
  /\ ~state.finished

\* C31: a chat message reaches only clients whose room is the room of its
\* sender, also when the sender has joined no room.
C31_ChatStaysInRoom ==
  hist.op = "chat" =>
    \A d \in out : state[d.to].room = state[hist.from].room

\* C32: passesInRow is within 0..players-2 in every state; every applyMove
\* sets it to 0, the applyPass that would bring it to players-1 sets it to 0,
\* and every other applyPass of an unfinished game adds 1, a combination on
\* the table or not.
C32_PassesInRowBounded ==
  /\ [](state.passesInRow \in 0..(state.players - 2))
  /\ [][/\ hist'.op \in {"move", "rawMove"} => state'.passesInRow = 0
        /\ (hist'.op \in {"pass", "rawPass"} /\ ~state.finished) =>
             state'.passesInRow = IF state.passesInRow + 1 = state.players - 1
                                  THEN 0 ELSE state.passesInRow + 1]_vars

\* Two passes in a row have been made on a clear table.
C32_Witness ==
  /\ hist.op = "pass"
  /\ state.lastCombo = null
  /\ state.passesInRow = state.players - 2
  /\ ~state.finished

\* passesInRow after one more pass.
passCounted(st) ==
  IF st.passesInRow + 1 >= st.players - 1 THEN 0 ELSE st.passesInRow + 1

\* C33: applyPass and applyMove test no turn: in an unfinished game
\* applyPass for any seat p, to play or not, counts the pass and sets
\* currentPlayer to (p + 1) mod players, applyMove for any seat gives the
\* turn to the seat after it, and every card list of a seat out of turn is
\* refused by isLegalMove.
C33_NoTurnCheckInApply ==
  /\ [][(hist'.op = "rawPass" /\ ~state.finished) =>
          /\ state'.currentPlayer = (hist'.by + 1) % state.players
          /\ state'.passesInRow = passCounted(state)
          /\ state'.hands = state.hands]_vars
  /\ [][hist'.op = "rawMove" =>
          state'.currentPlayer = (hist'.by + 1) % state.players]_vars
  /\ [](\A p \in Seats : p # state.currentPlayer =>
          \A cards \in Selections(state.hands[p]) : ~isLegalMove(state, p, cards).ok)

\* applyPass has been called for a seat out of turn in an unfinished game,
\* and the turn is with a seat other than the one that was next.
C33_Witness ==
  /\ hist.op = "rawPass"
  /\ ~hist.inTurn
  /\ ~state.finished
  /\ state.currentPlayer = (hist.by + 1) % state.players
  /\ state.passesInRow > 0

\* C34: on a clear table the seat to play, holding at least one card, gets
\* a move from aiChooseMove, and the move is one card of its hand.
C34_OpeningIsOneCard ==
  (opensTrick /\ state.hands[inp.player] # <<>>) =>
    /\ out.result # null
    /\ Len(out.result.cards) = 1
    /\ countOf(state.hands[inp.player], out.result.cards[1]) = 1

\* The hand is a pair of 2s, whose singles score what the pair scores, and
\* the first 2 has been returned.
C34_Witness ==
  /\ opensTrick
  /\ typeOf(state.hands[inp.player]) = "pair"
  /\ state.hands[inp.player][1].rank = "2"
  /\ out.result # null
  /\ out.result.cards = <<state.hands[inp.player][1]>>

\* The seat to play passed on a combination of this trick, and another seat
\* has played since.
backInTrick ==
  /\ ~state.finished
  /\ state.lastCombo # null
  /\ state.currentPlayer \in out.overtaken

\* C35: a seat that passed, and is to play again after another seat played
\* in the same trick, may play: isLegalMove accepts of its hand exactly the
\* recognised combinations that beat lastCombo, and such a play can be made.
C35_PassedSeatMayPlay ==
  [](backInTrick =>
       /\ \A cards \in Selections(state.hands[state.currentPlayer]) :
            isLegalMove(state, state.currentPlayer, cards).ok
              <=> (detectCombo(cards) # null
                   /\ compareCombos(state.lastCombo, detectCombo(cards)) > 0)
       /\ (\E cards \in Selections(state.hands[state.currentPlayer]) :
             detectCombo(cards) # null
             /\ compareCombos(state.lastCombo, detectCombo(cards)) > 0)
            => ENABLED PlayTrick)

\* A seat that had passed in this trick has played on a later combination
\* of it.
C35_Witness ==
  /\ out.back
  /\ hist.op = "move"
  /\ state.lastCombo # null

\* What the timer callback is to do with the state st: the play of
\* aiChooseMove when isLegalMove accepts it, a pass otherwise.
timerStep(st) ==
  IF aiChooseMove(st, st.currentPlayer) # null
     /\ isLegalMove(st, st.currentPlayer, aiChooseMove(st, st.currentPlayer).cards).ok
  THEN applyMove(st, st.currentPlayer,
                 isLegalMove(st, st.currentPlayer, aiChooseMove(st, st.currentPlayer).cards).combo)
  ELSE applyPass(st, st.currentPlayer)

\* C36: a timeout is pending only for the state on display, after a move,
\* a pass and a new deal alike, and when it fires the state changes once:
\* to the play chosen for it when that play is legal, to a pass otherwise.
C36_TimerActsOnCurrentState ==
  /\ [](hist.timer # null => (hist.timer.state = state /\ timerDue))
  /\ [][hist'.op = "aiTimer" => (state' = timerStep(state) /\ state' # state)]_vars

\* A new deal was made while a timeout was pending, the cleanup cleared it,
\* and a timeout for the new state is pending.
C36_Witness ==
  /\ hist.op \in {"reshuffle", "reinitGame"}
  /\ hist.cancelled
  /\ hist.timer # null
  /\ hist.deals = 2

\* The number of cards dealPlayers gives seat p from the table deck.
dealtTo(p) == Cardinality({i \in 1..Len(tableDeck) : (i - 1) % 4 = p})

\* C37: when every pending timeout fires and the human, whenever seat 0 is
\* to play, comes to play or pass, the game reaches finished = true.
C37_GameEventuallyFinishes == <>(state.finished)

\* The game is finished and seat 0 holds every card it was dealt: the human
\* did nothing but pass.
C37_Witness ==
  /\ state.finished
  /\ hist.op = "aiTimer"
  /\ Len(state.hands[0]) = dealtTo(0)

====
